---------------------------- MODULE Spec2Model ----------------------------
(***************************************************************************)
(* A model of tjpgdec-rs: the bit stream and the three Huffman decode      *)
(* tiers (src/src/huffman.rs), the MCU engine of JpegDecoder::decompress   *)
(* (src/src/decoder.rs) and the IDCT / colour conversion it calls          *)
(* (src/src/idct.rs, src/src/tables.rs), the memory pool (src/src/pool.rs) *)
(* and JpegDecoder::prepare with its segment parsers (src/src/decoder.rs). *)
(*                                                                         *)
(* Conventions.  Rust slices are 0-based, TLA+ sequences 1-based: the      *)
(* element data[i] of the source is data[i + 1] here.  Option<u8> is an    *)
(* integer, None being -1.  The u32 bit register is kept as two 16-bit     *)
(* limbs, because the checker's integers are 32-bit signed.                *)
(***************************************************************************)
EXTENDS Integers, Sequences, FiniteSets, TLC

VARIABLES
    \* ---- the three decode tiers run side by side (SpecTiers) ----
    t_tbl,      \* the Huffman table, as create_in_pool builds it
    t_data,     \* the entropy bytes
    t_s0,       \* BitStream of the fast-decode-0 build
    t_s1,       \* BitStream of the fast-decode-1 build
    t_s2,       \* BitStream of the fast-decode-2 build
    t_out,      \* outcome of the last decode call in each tier, <<r0, r1, r2>>
    t_calls,    \* number of decode calls made
    \* ---- one bit stream of the default build (SpecBits) ----
    b_tbl,      \* Huffman table used by the decode calls
    b_data,     \* the entropy bytes
    b_bs,       \* the BitStream
    b_dead,     \* an operation has returned an error
    b_out,      \* history: the bits delivered since the last reset
    b_base,     \* history: logical bytes up to the last get_marker
    b_basePos,  \* history: read cursor at the last get_marker / reset
    b_pads,     \* history: 0xFF pad bytes generated since then
    b_last,     \* history: the last operation, and what get_marker returned
    \* ---- a prepared decoder and its decompress calls (Spec) ----
    img,        \* the image the file was written for
    file,       \* the JPEG file, the `data` of prepare and decompress
    decoder,    \* the JpegDecoder
    mcu_buf,    \* the caller's MCU buffer
    work_buf,   \* the caller's work buffer
    pc,         \* "idle", or "loop" inside the MCU loop of decompress
    args,       \* the arguments of the call in progress
    bitstream,  \* decompress's BitStream
    loop,       \* mcu_x, mcu_y, restart_counter, restart_marker
    sink_log,   \* what the sink was called with in this call, in order
    trace,      \* history of this call: scale and dc_values before it, the
                \* stream at each MCU start, the resets, the MCUs decoded,
                \* the error of a failed decode_mcu
    calls,      \* history: the completed calls
    \* ---- a memory pool and the allocations made from it (SpecPool) ----
    m_pool,     \* the MemoryPool: the length of its buffer and its offset
    m_build,    \* "debug" (overflow checks) or "release" (wrapping)
    m_regions,  \* history: the regions returned since new / reset
    m_last,     \* history: the last call, the pool before it, its outcome
    \* ---- a decoder and the prepare calls made on it (SpecPrepare) ----
    h_dec,      \* the JpegDecoder
    h_pool,     \* the MemoryPool given to prepare
    h_tier,     \* the decode tier of the build: 0, 1 or 2
    h_last,     \* history: the last prepare call, its input and outcome
    h_n,        \* number of prepare calls made on the decoder
    \* ---- the numeric kernels applied to one input (SpecKernels) ----
    k_in,       \* the input: which kernel, and its arguments
    k_out,      \* what the kernel returned, 0 before the call
    \* ---- the restart counter of one decompress call (SpecCounter) ----
    c_build,    \* "debug" (overflow checks) or "release" (wrapping)
    c_dec,      \* the size, sampling and restart interval of the decoder
    c_loop,     \* mcu_y, restart_counter, the result of the call, and
                \* as history the peak of the counter and its overflow
    \* ---- one prepare call, segment by segment (SpecRuns) ----
    r_data,     \* the input bytes
    r_tier,     \* the decode tier of the build
    r_pc,       \* "off", "called", "loop" or "returned"
    r_st,       \* the decoder, the pool and the history of the parsers
    r_pos,      \* the cursor pos of prepare
    r_result,   \* what the call returned
    \* ---- history ----
    tick        \* the parity of the steps that the loops of SpecRuns took

tvars == <<t_tbl, t_data, t_s0, t_s1, t_s2, t_out, t_calls>>
bvars == <<b_tbl, b_data, b_bs, b_dead, b_out, b_base, b_basePos, b_pads, b_last>>
dvars == <<img, file, decoder, mcu_buf, work_buf, pc, args, bitstream, loop,
           sink_log, trace, calls>>
mvars == <<m_pool, m_build, m_regions, m_last>>
hvars == <<h_dec, h_pool, h_tier, h_last, h_n>>
kvars == <<k_in, k_out>>
cvars == <<c_build, c_dec, c_loop>>
rvars == <<r_data, r_tier, r_pc, r_st, r_pos, r_result>>
vars == <<tvars, bvars, dvars, mvars, hvars, kvars, cvars, rvars, tick>>

----------------------------------------------------------------------------
(* Arithmetic helpers                                                      *)

Pow2(n) == 2 ^ n

Min(S) == CHOOSE x \in S : \A y \in S : x <= y
Max(S) == CHOOSE x \in S : \A y \in S : x >= y

\* Option::None of marker_found
None == -1

\* HUFF_BIT and HUFF_LEN of the LUT tier
HUFF_BIT == 10
HUFF_LEN == Pow2(HUFF_BIT)

\* the 32-bit register as two 16-bit limbs
U32Zero == [hi |-> 0, lo |-> 0]

\* a value below 2^31 as a u32
U32From(w) == [hi |-> w \div 65536, lo |-> w % 65536]

\* bit_buffer & ((1 << k) - 1), for 0 <= k <= 31
U32Low(bb, k) ==
    IF k <= 16 THEN bb.lo % Pow2(k)
    ELSE (bb.hi % Pow2(k - 16)) * 65536 + bb.lo

\* (bit_buffer << 8) | d, the bits shifted beyond bit 31 are lost
U32Shl8Or(bb, d) ==
    [hi |-> (bb.hi % 256) * 256 + (bb.lo \div 256),
     lo |-> (bb.lo % 256) * 256 + d]

----------------------------------------------------------------------------
(* BitStream                                                               *)

\* BitStream::new
BitStreamNew ==
    [pos |-> 0, bit_buffer |-> U32Zero, bits_in_buffer |-> 0,
     marker_found |-> None, bit_mask |-> 0]

\* The register fill loop shared by read_bits, decode_fastdecode1 and
\* decode_fastdecode2: `while wbit < need { ... }`.  pads counts the 0xFF
\* bytes generated while a marker is pending.
\* Fill, but a stuffed 0xFF 0x00 pair puts nothing into the register
RECURSIVE FillDropStuffed(_, _, _, _, _, _, _, _)
FillDropStuffed(data, pos, marker, w, wbit, flg, need, pads) ==
    IF wbit >= need
    THEN [ok |-> TRUE, pos |-> pos, marker |-> marker, w |-> w, wbit |-> wbit,
          pads |-> pads]
    ELSE IF marker # None
    THEN FillDropStuffed(data, pos, marker, w * 256 + 255, wbit + 8, flg, need,
                         pads + 1)
    ELSE IF Len(data) - pos = 0
    THEN [ok |-> FALSE, pos |-> pos, marker |-> marker, w |-> w, wbit |-> wbit,
          pads |-> pads]
    ELSE LET byte == data[pos + 1] IN
         IF flg
         THEN IF byte # 0
              THEN FillDropStuffed(data, pos + 1, byte, w * 256 + 255, wbit + 8,
                                   FALSE, need, pads)
              ELSE FillDropStuffed(data, pos + 1, marker, w, wbit, FALSE, need,
                                   pads)
         ELSE IF byte = 255
         THEN FillDropStuffed(data, pos + 1, marker, w, wbit, TRUE, need, pads)
         ELSE FillDropStuffed(data, pos + 1, marker, w * 256 + byte, wbit + 8,
                              FALSE, need, pads)

RECURSIVE Fill(_, _, _, _, _, _, _, _)
Fill(data, pos, marker, w, wbit, flg, need, pads) ==
    IF wbit >= need
    THEN [ok |-> TRUE, pos |-> pos, marker |-> marker, w |-> w, wbit |-> wbit,
          pads |-> pads]
    ELSE IF marker # None
    THEN Fill(data, pos, marker, w * 256 + 255, wbit + 8, flg, need, pads + 1)
    ELSE IF Len(data) - pos = 0
    THEN [ok |-> FALSE, pos |-> pos, marker |-> marker, w |-> w, wbit |-> wbit,
          pads |-> pads]
    ELSE LET byte == data[pos + 1] IN
         IF flg
         THEN Fill(data, pos + 1, IF byte # 0 THEN byte ELSE marker,
                   w * 256 + 255, wbit + 8, FALSE, need, pads)
         ELSE IF byte = 255
         THEN Fill(data, pos + 1, marker, w, wbit, TRUE, need, pads)
         ELSE Fill(data, pos + 1, marker, w * 256 + byte, wbit + 8, FALSE,
                   need, pads)

\* the register as the fill loop starts from it
StartW(bs) ==
    LET wbit == bs.bits_in_buffer % 32 IN
    IF wbit > 0 THEN U32Low(bs.bit_buffer, wbit) ELSE 0

\* BitStream::read_bits (fast-decode-1 and fast-decode-2 builds, and the
\* default build)
read_bits(data, bs, nbit) ==
    IF nbit = 0 THEN [ok |-> TRUE, err |-> "", val |-> 0, bs |-> bs, pads |-> 0]
    ELSE IF nbit > 16
    THEN [ok |-> FALSE, err |-> "Parameter", val |-> 0, bs |-> bs, pads |-> 0]
    ELSE
    LET f == Fill(data, bs.pos, bs.marker_found, StartW(bs),
                  bs.bits_in_buffer % 32, FALSE, nbit, 0)
    IN  IF ~f.ok
        THEN [ok |-> FALSE, err |-> "Input", val |-> 0, pads |-> f.pads,
              bs |-> [bs EXCEPT !.pos = f.pos, !.marker_found = f.marker]]
        ELSE [ok |-> TRUE, err |-> "", pads |-> f.pads,
              val |-> (f.w \div Pow2((f.wbit - nbit) % 32)) % Pow2(nbit),
              bs |-> [bs EXCEPT !.pos = f.pos, !.marker_found = f.marker,
                                !.bit_buffer = U32From(f.w),
                                !.bits_in_buffer = f.wbit - nbit]]

\* BitStream::refill
refill(data, bs) ==
    LET bb0 == IF bs.bits_in_buffer > 0 /\ bs.bits_in_buffer < 32
               THEN U32From(U32Low(bs.bit_buffer, bs.bits_in_buffer))
               ELSE bs.bit_buffer
    IN  IF bs.marker_found # None
        THEN [ok |-> TRUE, pads |-> 1,
              bs |-> [bs EXCEPT !.bit_buffer = U32Shl8Or(bb0, 255),
                                !.bits_in_buffer = @ + 8]]
        ELSE IF bs.pos >= Len(data)
        THEN [ok |-> FALSE, pads |-> 0, bs |-> [bs EXCEPT !.bit_buffer = bb0]]
        ELSE LET byte == data[bs.pos + 1] IN
             IF byte = 255
             THEN IF bs.pos + 1 >= Len(data)
                  THEN [ok |-> FALSE, pads |-> 0,
                        bs |-> [bs EXCEPT !.bit_buffer = bb0, !.pos = @ + 1]]
                  ELSE LET next == data[bs.pos + 2] IN
                       [ok |-> TRUE, pads |-> 0,
                        bs |-> [bs EXCEPT
                                  !.pos = @ + 2,
                                  !.marker_found = IF next = 0 THEN @ ELSE next,
                                  !.bit_buffer = U32Shl8Or(bb0, 255),
                                  !.bits_in_buffer = @ + 8]]
             ELSE [ok |-> TRUE, pads |-> 0,
                   bs |-> [bs EXCEPT !.pos = @ + 1,
                                     !.bit_buffer = U32Shl8Or(bb0, byte),
                                     !.bits_in_buffer = @ + 8]]

\* BitStream::read_bit
read_bit(data, bs) ==
    LET r == IF bs.bits_in_buffer = 0 THEN refill(data, bs)
             ELSE [ok |-> TRUE, pads |-> 0, bs |-> bs]
    IN  IF ~r.ok
        THEN [ok |-> FALSE, err |-> "Input", val |-> 0, bs |-> r.bs, pads |-> 0]
        ELSE LET n == r.bs.bits_in_buffer - 1 IN
             [ok |-> TRUE, err |-> "", pads |-> r.pads,
              val |-> U32Low(r.bs.bit_buffer, n + 1) \div Pow2(n),
              bs |-> [r.bs EXCEPT !.bits_in_buffer = n]]

\* BitStream::read_bit_level0 (fast-decode-0 build)
read_bit_level0(data, bs) ==
    LET ld ==
          IF bs.bit_mask # 0 THEN [ok |-> TRUE, bs |-> bs]
          ELSE IF bs.pos >= Len(data) THEN [ok |-> FALSE, bs |-> bs]
          ELSE LET byte == data[bs.pos + 1] IN
               IF bs.marker_found # None
               THEN [ok |-> TRUE,
                     bs |-> [bs EXCEPT !.pos = @ + 1,
                                       !.bit_buffer = U32From(255),
                                       !.bit_mask = 128]]
               ELSE IF byte = 255
               THEN IF bs.pos + 1 >= Len(data)
                    THEN [ok |-> FALSE, bs |-> [bs EXCEPT !.pos = @ + 1]]
                    ELSE LET next == data[bs.pos + 2] IN
                         [ok |-> TRUE,
                          bs |-> [bs EXCEPT
                                    !.pos = @ + 2,
                                    !.marker_found = IF next # 0 THEN next ELSE @,
                                    !.bit_buffer = U32From(255),
                                    !.bit_mask = 128]]
               ELSE [ok |-> TRUE,
                     bs |-> [bs EXCEPT !.pos = @ + 1,
                                       !.bit_buffer = U32From(byte),
                                       !.bit_mask = 128]]
    IN  IF ~ld.ok
        THEN [ok |-> FALSE, err |-> "Input", val |-> 0, bs |-> ld.bs]
        ELSE [ok |-> TRUE, err |-> "",
              val |-> ((ld.bs.bit_buffer.lo % 256) \div ld.bs.bit_mask) % 2,
              bs |-> [ld.bs EXCEPT !.bit_mask = @ \div 2]]

\* BitStream::read_bits_level0
RECURSIVE read_bits_level0_from(_, _, _, _)
read_bits_level0_from(data, bs, nbit, d) ==
    IF nbit = 0 THEN [ok |-> TRUE, err |-> "", val |-> d, bs |-> bs]
    ELSE LET r == read_bit_level0(data, bs) IN
         IF ~r.ok THEN r
         ELSE read_bits_level0_from(data, r.bs, nbit - 1,
                                    (d * 2 + r.val) % 65536)

read_bits_level0(data, bs, nbit) == read_bits_level0_from(data, bs, nbit, 0)

\* BitStream::reset_for_restart
reset_for_restart(bs) ==
    [bs EXCEPT !.bit_buffer = U32Zero, !.bits_in_buffer = 0,
               !.marker_found = None, !.bit_mask = 0]

\* BitStream::get_marker: Option::take
get_marker(bs) ==
    [val |-> bs.marker_found, bs |-> [bs EXCEPT !.marker_found = None]]

----------------------------------------------------------------------------
(* Huffman table                                                           *)

\* sum of bits[lo..hi]
RECURSIVE SumBits(_, _, _)
SumBits(bits, lo, hi) ==
    IF lo > hi THEN 0 ELSE bits[lo] + SumBits(bits, lo + 1, hi)

\* The canonical codes in construction order: for each length emit
\* bits[L] consecutive codes, then code <<= 1 (u16 arithmetic).
RECURSIVE CodesFrom(_, _, _)
CodesFrom(bits, L, code) ==
    IF L > 16 THEN <<>>
    ELSE [i \in 1..bits[L] |-> (code + i - 1) % 65536]
         \o CodesFrom(bits, L + 1, ((code + bits[L]) * 2) % 65536)

\* HuffmanTable::build_fast_lut: long_offset, the number of codes of at
\* most HUFF_BIT bits
LongOffset(bits) == SumBits(bits, 1, HUFF_BIT)

\* HuffmanTable::create_in_pool (the pool is taken to be large enough)
create_in_pool(bits, values) ==
    IF Len(bits) # 16
    THEN [ok |-> FALSE, err |-> "FormatError"]
    ELSE LET num_codes == SumBits(bits, 1, 16) IN
         IF Len(values) # num_codes
         THEN [ok |-> FALSE, err |-> "FormatError"]
         ELSE [ok |-> TRUE, err |-> "",
               tbl |-> [bits |-> bits, codes |-> CodesFrom(bits, 1, 0),
                        data |-> values, num_codes |-> num_codes,
                        long_offset |-> LongOffset(bits)]]

\* the bit length (1..16) of the code at 0-based index idx
RECURSIVE LenOfIdx(_, _, _)
LenOfIdx(bits, idx, L) ==
    IF L >= 16 \/ idx < bits[L] THEN L ELSE LenOfIdx(bits, idx - bits[L], L + 1)

\* HuffmanTable::build_fast_lut: entry d of the table.  The source fills
\* the table code by code in construction order, each code over its span
\* of 1 << shift slots, so a slot holds what the last code covering it
\* wrote, and 0xFFFF if none did.
LutAt(tbl, d) ==
    LET cover == {idx \in 0..(tbl.long_offset - 1) :
                    LET bl == LenOfIdx(tbl.bits, idx, 1)
                        shift == HUFF_BIT - bl
                        table_idx == (tbl.codes[idx + 1] * Pow2(shift)) % HUFF_LEN
                    IN  table_idx <= d /\ d < table_idx + Pow2(shift)}
    IN  IF cover = {} THEN 65535
        ELSE LET idx == Max(cover) IN
             tbl.data[idx + 1] + LenOfIdx(tbl.bits, idx, 1) * 256

\* The incremental search of decode_fastdecode1 / decode_fastdecode2: for
\* each length bl..16 compare the top bl bits with that length's codes.
\* bl of the result is the last length that was compared.
RECURSIVE SearchFrom(_, _, _, _, _)
SearchFrom(tbl, w, wbit, bl, data_idx) ==
    IF bl > 16 THEN [found |-> FALSE, bl |-> bl - 1]
    ELSE LET count == tbl.bits[bl]
             d == (w \div Pow2(wbit - bl)) % 65536
             hits == {j \in 0..(count - 1) :
                        /\ data_idx + j < tbl.num_codes
                        /\ tbl.codes[data_idx + j + 1] = d}
         IN  IF hits # {}
             THEN [found |-> TRUE, idx |-> data_idx + Min(hits), bl |-> bl]
             ELSE SearchFrom(tbl, w, wbit, bl + 1, data_idx + count)

\* HuffmanTable::decode_fastdecode1
decode_fastdecode1(tbl, data, bs) ==
    LET wbit0 == bs.bits_in_buffer % 32
        f == Fill(data, bs.pos, bs.marker_found, StartW(bs), wbit0, FALSE, 16, 0)
        bs1 == [bs EXCEPT !.pos = f.pos, !.marker_found = f.marker]
    IN  IF ~f.ok
        THEN [ok |-> FALSE, err |-> "Input", val |-> 0, len |-> 0,
              pads |-> f.pads, bs |-> bs1]
        ELSE LET bs2 == [bs1 EXCEPT !.bit_buffer = U32From(f.w)]
                 s == SearchFrom(tbl, f.w, f.wbit, 1, 0)
             IN  IF s.found
                 THEN [ok |-> TRUE, err |-> "", val |-> tbl.data[s.idx + 1],
                       len |-> s.bl, pads |-> f.pads,
                       bs |-> [bs2 EXCEPT !.bits_in_buffer = f.wbit - s.bl]]
                 ELSE [ok |-> FALSE, err |-> "FormatError", val |-> 0,
                       len |-> 0, pads |-> f.pads, bs |-> bs2]

\* the bits d that the successful compare of decode_fastdecode1 consumed
decode1_bits(tbl, data, bs) ==
    LET wbit0 == bs.bits_in_buffer % 32
        f == Fill(data, bs.pos, bs.marker_found, StartW(bs), wbit0, FALSE, 16, 0)
        s == SearchFrom(tbl, f.w, f.wbit, 1, 0)
    IN  (f.w \div Pow2(f.wbit - s.bl)) % 65536

\* history: the number of bit lengths that the search of decode_fastdecode1
\* went through (0 if the register could not be filled)
decode_steps(tbl, data, bs) ==
    LET wbit0 == bs.bits_in_buffer % 32
        f == Fill(data, bs.pos, bs.marker_found, StartW(bs), wbit0, FALSE, 16, 0)
    IN  IF ~f.ok THEN 0 ELSE SearchFrom(tbl, f.w, f.wbit, 1, 0).bl

\* HuffmanTable::decode_fastdecode2
decode_fastdecode2(tbl, data, bs) ==
    LET wbit0 == bs.bits_in_buffer % 32
        f == Fill(data, bs.pos, bs.marker_found, StartW(bs), wbit0, FALSE, 16, 0)
        bs1 == [bs EXCEPT !.pos = f.pos, !.marker_found = f.marker]
    IN  IF ~f.ok
        THEN [ok |-> FALSE, err |-> "Input", val |-> 0, len |-> 0,
              pads |-> f.pads, bs |-> bs1]
        ELSE LET bs2 == [bs1 EXCEPT !.bit_buffer = U32From(f.w)]
                 d == f.w \div Pow2(f.wbit - HUFF_BIT)
                 entry == IF d < HUFF_LEN THEN LutAt(tbl, d) ELSE 65535
             IN  IF entry # 65535
                 THEN [ok |-> TRUE, err |-> "", val |-> entry % 256,
                       len |-> entry \div 256, pads |-> f.pads,
                       bs |-> [bs2 EXCEPT
                                 !.bits_in_buffer = f.wbit - (entry \div 256)]]
                 ELSE LET s == SearchFrom(tbl, f.w, f.wbit, HUFF_BIT + 1,
                                          tbl.long_offset)
                      IN  IF s.found
                          THEN [ok |-> TRUE, err |-> "",
                                val |-> tbl.data[s.idx + 1], len |-> s.bl,
                                pads |-> f.pads,
                                bs |-> [bs2 EXCEPT
                                          !.bits_in_buffer = f.wbit - s.bl]]
                          ELSE [ok |-> FALSE, err |-> "FormatError", val |-> 0,
                                len |-> 0, pads |-> f.pads, bs |-> bs2]

\* HuffmanTable::decode_fastdecode0: one bit at a time
RECURSIVE decode0_from(_, _, _, _, _, _)
decode0_from(tbl, data, bs, bl, d, data_idx) ==
    IF bl > 16
    THEN [ok |-> FALSE, err |-> "FormatError", val |-> 0, len |-> 0, bs |-> bs]
    ELSE LET r == read_bit_level0(data, bs) IN
         IF ~r.ok
         THEN [ok |-> FALSE, err |-> r.err, val |-> 0, len |-> 0, bs |-> r.bs]
         ELSE LET d1 == (d * 2 + r.val) % 65536
                  count == tbl.bits[bl]
                  hits == {j \in 0..(count - 1) :
                             /\ data_idx + j < tbl.num_codes
                             /\ tbl.codes[data_idx + j + 1] = d1}
              IN  IF hits # {}
                  THEN [ok |-> TRUE, err |-> "",
                        val |-> tbl.data[data_idx + Min(hits) + 1],
                        len |-> bl, bs |-> r.bs]
                  ELSE decode0_from(tbl, data, r.bs, bl + 1, d1,
                                    data_idx + count)

decode_fastdecode0(tbl, data, bs) == decode0_from(tbl, data, bs, 1, 0, 0)

----------------------------------------------------------------------------
(* Tables, IDCT and colour conversion                                      *)

\* x as i16 (two's complement wrap of `as i16` and of wrapping_add)
ToI16(x) == ((x + 32768) % 65536) - 32768

\* x >> n on a signed integer (arithmetic shift)
Shr(x, n) == x \div Pow2(n)

\* a / b of Rust: the quotient truncated toward zero (b > 0)
QuotT(a, b) == IF a >= 0 THEN a \div b ELSE -((-a) \div b)

\* tables::ZIGZAG; ZIGZAG[z] of the source is ZIGZAG[z + 1] here
ZIGZAG ==
    << 0,  1,  8, 16,  9,  2,  3, 10,
      17, 24, 32, 25, 18, 11,  4,  5,
      12, 19, 26, 33, 40, 48, 41, 34,
      27, 20, 13,  6,  7, 14, 21, 28,
      35, 42, 49, 56, 57, 50, 43, 36,
      29, 22, 15, 23, 30, 37, 44, 51,
      58, 59, 52, 45, 38, 31, 39, 46,
      53, 60, 61, 54, 47, 55, 62, 63 >>

\* tables::ARAI_SCALE_FACTOR
ARAI_SCALE_FACTOR ==
    << 8192, 11363, 10703,  9633,  8192,  6436,  4433,  2260,
      11363, 15746, 14852, 13363, 11363,  8930,  6149,  3135,
      10703, 14852, 13983, 12583, 10703,  8410,  5793,  2953,
       9633, 13363, 12583, 11327,  9633,  7568,  5212,  2657,
       8192, 11363, 10703,  9633,  8192,  6436,  4433,  2260,
       6436,  8930,  8410,  7568,  6436,  5057,  3484,  1776,
       4433,  6149,  5793,  5212,  4433,  3484,  2400,  1224,
       2260,  3135,  2953,  2657,  2260,  1776,  1224,   623 >>

\* the rotation constants of idct.rs: (c * 4096.0) as i32
M13 == 5792
M2 == 4433
M4 == 10703
M5 == 7568

\* the colour constants of tables.rs: (c * 1024.0) as i32
CVACC == 1024
CR_TO_R == 1435
CB_TO_G == 352
CR_TO_G == 731
CB_TO_B == 1814

\* tables::byte_clip (the arithmetic clamp)
byte_clip(val) == IF val < 0 THEN 0 ELSE IF val > 255 THEN 255 ELSE val

\* tables::CLIP_TABLE of the table-clip build: entry i of the 1024, as the
\* four loops of the constant fill it
CLIP_TABLE(i) ==
    IF i < 256 THEN i % 256
    ELSE IF i < 512 THEN 255
    ELSE IF i < 768 THEN 0
    ELSE (i - 768) % 256

\* tables::byte_clip of the table-clip build: (val as usize) & 0x3FF keeps
\* the low ten bits of the two's complement of val
byte_clip_table(val) == CLIP_TABLE(val % 1024)

\* byte_clip as the build has it: "table-clip" with the feature, "" without
byte_clip_in(build, val) ==
    IF build = "table-clip" THEN byte_clip_table(val) ELSE byte_clip(val)

\* One pass of block_idct over the eight values v (positions 0..7 of a
\* column or a row, v[k + 1] being position k); the result is indexed the
\* same way.
Idct1D(v) ==
    LET t10 == v[1] + v[5]
        t12 == v[1] - v[5]
        v3 == v[7] + v[3]
        t11 == Shr((v[3] - v[7]) * M13, 12) - v3
        e0 == t10 + v3
        e3 == t10 - v3
        e1 == t11 + t12
        e2 == t12 - t11
        o10 == v[2] - v[8]
        o11 == v[2] + v[8]
        o12 == v[6] - v[4]
        v7a == v[4] + v[6]
        v5a == Shr((o11 - v7a) * M13, 12)
        v7 == v7a + o11
        t13 == Shr((o10 + o12) * M5, 12)
        v4a == t13 - Shr(o10 * M2, 12)
        v6 == t13 - Shr(o12 * M4, 12) - v7
        v5 == v5a - v6
        v4 == v4a - v5
    IN  << e0 + v7, e1 + v6, e2 + v5, e3 + v4,
           e3 - v4, e2 - v5, e1 - v6, e0 - v7 >>

\* column i and row r of block_idct's passes, as the eight values of Idct1D
ColumnOf(src, i) ==
    << src[i + 1], src[i + 9], src[i + 17], src[i + 25],
       src[i + 33], src[i + 41], src[i + 49], src[i + 57] >>

\* a row pass without the level shift
RowOf_unshifted(col, r) ==
    << col[1][r + 1], col[2][r + 1], col[3][r + 1], col[4][r + 1],
       col[5][r + 1], col[6][r + 1], col[7][r + 1], col[8][r + 1] >>

RowOf(col, r) ==
    << col[1][r + 1] + 32768, col[2][r + 1], col[3][r + 1], col[4][r + 1],
       col[5][r + 1], col[6][r + 1], col[7][r + 1], col[8][r + 1] >>

\* idct::block_idct: src is the de-quantized block (src[k + 1] is element
\* k), the result is dst, indexed the same way.  col[i + 1] is column i
\* after the column pass, row[r + 1] is row r after the row pass, before
\* the descaling.
block_idct(src) ==
    LET col == << Idct1D(ColumnOf(src, 0)), Idct1D(ColumnOf(src, 1)),
                  Idct1D(ColumnOf(src, 2)), Idct1D(ColumnOf(src, 3)),
                  Idct1D(ColumnOf(src, 4)), Idct1D(ColumnOf(src, 5)),
                  Idct1D(ColumnOf(src, 6)), Idct1D(ColumnOf(src, 7)) >>
        row == << Idct1D(RowOf(col, 0)), Idct1D(RowOf(col, 1)),
                  Idct1D(RowOf(col, 2)), Idct1D(RowOf(col, 3)),
                  Idct1D(RowOf(col, 4)), Idct1D(RowOf(col, 5)),
                  Idct1D(RowOf(col, 6)), Idct1D(RowOf(col, 7)) >>
    IN  [j \in 1..64 |->
           ToI16(Shr(row[((j - 1) \div 8) + 1][((j - 1) % 8) + 1], 8))]

\* a ycbcr_to_rgb whose Cr-to-R and Cb-to-B factors are rounded to nearest
ycbcr_to_rgb_rounded(build, y, cb, cr) ==
    << byte_clip_in(build, y + QuotT((CR_TO_R + 1) * cr, CVACC)),
       byte_clip_in(build, y - QuotT(CB_TO_G * cb + CR_TO_G * cr, CVACC)),
       byte_clip_in(build, y + QuotT((CB_TO_B + 1) * cb, CVACC)) >>

\* color::ycbcr_to_rgb in a build
ycbcr_to_rgb_in(build, y, cb, cr) ==
    << byte_clip_in(build, y + QuotT(CR_TO_R * cr, CVACC)),
       byte_clip_in(build, y - QuotT(CB_TO_G * cb + CR_TO_G * cr, CVACC)),
       byte_clip_in(build, y + QuotT(CB_TO_B * cb, CVACC)) >>

\* color::ycbcr_to_rgb (the build without table-clip)
ycbcr_to_rgb(y, cb, cr) == ycbcr_to_rgb_in("", y, cb, cr)

\* color::mcu_to_rgb: the bytes written to output[0 .. mw*8*mh*8*3), in
\* order.  y_block is mcu_buffer, the Cb and Cr blocks follow its luma
\* blocks.
mcu_to_rgb(mcu_buffer, mcu_width, mcu_height, sampling_h, sampling_v) ==
    LET nY == mcu_width * mcu_height
        line == mcu_width * 8
    IN  [n \in 1..(line * mcu_height * 8 * 3) |->
           LET px == (n - 1) \div 3
               abs_y == px \div line
               abs_x == px % line
               block_y == abs_y \div 8
               block_x == abs_x \div 8
               y_idx == (block_y * mcu_width + block_x) * 64
                        + (abs_y % 8) * 8 + (abs_x % 8)
               cb_idx == (abs_y \div sampling_v) * 8 + (abs_x \div sampling_h)
               yy == mcu_buffer[y_idx + 1]
               cb == mcu_buffer[nY * 64 + cb_idx + 1] - 128
               cr == mcu_buffer[(nY + 1) * 64 + cb_idx + 1] - 128
           IN  ycbcr_to_rgb(yy, cb, cr)[((n - 1) % 3) + 1]]

\* color::mcu_to_grayscale: the bytes written to output[0 .. mw*8*mh*8)
mcu_to_grayscale(mcu_buffer, mcu_width, mcu_height) ==
    LET line == mcu_width * 8
    IN  [n \in 1..(line * mcu_height * 8) |->
           LET abs_y == (n - 1) \div line
               abs_x == (n - 1) % line
               y_idx == ((abs_y \div 8) * mcu_width + (abs_x \div 8)) * 64
                        + (abs_y % 8) * 8 + (abs_x % 8)
           IN  byte_clip(mcu_buffer[y_idx + 1])]

----------------------------------------------------------------------------
(* JpegDecoder: the MCU engine                                             *)
(*                                                                         *)
(* A decoder is a record of the fields of JpegDecoder: width, height,      *)
(* num_components, sampling, huff_dc, huff_ac, qtables, qtable_ids,        *)
(* dc_values, restart_interval, scale and sos_position.  Arrays are        *)
(* functions from the 0-based index.  A null table pointer is <<>>.        *)

\* <*const T>::is_null
is_null(ptr) == DOMAIN ptr = {}

\* SamplingFactor::mcu_width and SamplingFactor::mcu_height
mcu_width_of(sampling) == IF sampling = "Yuv444" THEN 1 ELSE 2
mcu_height_of(sampling) == IF sampling = "Yuv420" THEN 2 ELSE 1

\* JpegDecoder::mcu_buffer_size
mcu_buffer_size(dec) ==
    (mcu_width_of(dec.sampling) * mcu_height_of(dec.sampling) + 2) * 64

\* a work buffer size that depends on the output format: three bytes per
\* pixel for a 3-component image and one for a grayscale image
work_buffer_size_by_format(dec) ==
    mcu_width_of(dec.sampling) * 8 * mcu_height_of(dec.sampling) * 8
    * (IF dec.num_components = 3 THEN 3 ELSE 1)

\* JpegDecoder::work_buffer_size
work_buffer_size(dec) ==
    mcu_width_of(dec.sampling) * 8 * mcu_height_of(dec.sampling) * 8 * 3

\* an accessor that leaves the scale out
unscaled_width(dec) == dec.width

\* JpegDecoder::width, height, raw_width, raw_height and components
width(dec) == Shr(dec.width, dec.scale)
height(dec) == Shr(dec.height, dec.scale)
raw_width(dec) == dec.width
raw_height(dec) == dec.height
components(dec) == dec.num_components

\* JpegDecoder::find_scan_data: the offset at which the scan data start
find_scan_data(dec, data) ==
    LET i == dec.sos_position IN
    IF i + 4 > Len(data) THEN [ok |-> FALSE, err |-> "Input", start |-> 0]
    ELSE IF data[i + 1] # 255 \/ data[i + 2] # 218
    THEN [ok |-> FALSE, err |-> "FormatError", start |-> 0]
    ELSE LET seg_len == data[i + 3] * 256 + data[i + 4]
             scan_start == i + 2 + seg_len
         IN  IF scan_start < Len(data)
             THEN [ok |-> TRUE, err |-> "", start |-> scan_start]
             ELSE [ok |-> FALSE, err |-> "Input", start |-> 0]

\* JpegDecoder::extend
extend(v, t) ==
    LET vt == ToI16(Pow2(t - 1))
        sv == ToI16(v)
    IN  IF sv < vt THEN ToI16(sv + ToI16(-Pow2(t)) + 1) ELSE sv

\* HuffmanTable::decode of the default build
decode(tbl, data, bs) == decode_fastdecode1(tbl, data, bs)

\* the result of the AC loop; steps is history: for each iteration of the
\* loop the index z it began with, whether its decode call returned a
\* symbol, the symbol, the raster index of tmp that was written for it (None
\* if none was), the number of bit lengths the decode call went through
\* (tried), the 0xFF bytes it was padded with (pads), and the input offset
\* and the pending marker before the call (pos, marker)
ac_result(ok, err, bs, tmp, steps) ==
    [ok |-> ok, err |-> err, bs |-> bs, tmp |-> tmp, steps |-> steps]

\* tmp[i] = (ac_value * qtable[i]) >> 8 with i = ZIGZAG[z], for ac_len > 0
ac_put(tmp, qtable, z, ac_len, bits) ==
    IF ac_len > 0
    THEN [tmp EXCEPT ![ZIGZAG[z + 1] + 1] =
             Shr(extend(bits, ac_len) * qtable[ZIGZAG[z + 1] + 1], 8)]
    ELSE tmp

\* history: the last symbol has written tmp[ZIGZAG[z]], if ac_len > 0
ac_stored(steps, z, ac_len) ==
    IF ac_len > 0
    THEN [steps EXCEPT ![Len(steps)].stored = ZIGZAG[z + 1]]
    ELSE steps

\* a read that is not made: no bits, the bit stream as it is
no_bits(bs) == [ok |-> TRUE, err |-> "", val |-> 0, bs |-> bs]

\* The AC loop of decode_and_dequantize_block, entered with the index z.
RECURSIVE ac_loop(_, _, _, _, _, _, _)

\* an AC loop that goes on after z has reached 64
ac_coefficient_on(ac_table, qtable, data, tmp, z, ac_len, r, steps) ==
    IF ~r.ok THEN ac_result(FALSE, r.err, r.bs, tmp, steps)
    ELSE ac_loop(ac_table, qtable, data, r.bs,
                 ac_put(tmp, qtable, z, ac_len, r.val), z + 1,
                 ac_stored(steps, z, ac_len))

\* the AC loop from the read r of the ac_len bits of the coefficient at z on
ac_coefficient(ac_table, qtable, data, tmp, z, ac_len, r, steps) ==
    IF ~r.ok THEN ac_result(FALSE, r.err, r.bs, tmp, steps)
    ELSE IF z + 1 >= 64
    THEN ac_result(TRUE, "", r.bs, ac_put(tmp, qtable, z, ac_len, r.val),
                   ac_stored(steps, z, ac_len))
    ELSE ac_loop(ac_table, qtable, data, r.bs,
                 ac_put(tmp, qtable, z, ac_len, r.val), z + 1,
                 ac_stored(steps, z, ac_len))

\* the AC loop from the decoded symbol s on: zero_run is s.val \div 16 and
\* ac_len is s.val % 16
ac_symbol(ac_table, qtable, data, tmp, z, s, steps) ==
    IF ~s.ok THEN ac_result(FALSE, s.err, s.bs, tmp, steps)
    ELSE IF s.val = 0 THEN ac_result(TRUE, "", s.bs, tmp, steps)
    ELSE IF z + s.val \div 16 >= 64
    THEN ac_result(FALSE, "FormatError", s.bs, tmp, steps)
    ELSE ac_coefficient(ac_table, qtable, data, tmp, z + s.val \div 16,
                        s.val % 16,
                        IF s.val % 16 > 0
                        THEN read_bits(data, s.bs, s.val % 16)
                        ELSE no_bits(s.bs),
                        steps)

\* the AC loop from the call of decode on, which found the bit stream bs
ac_decoded(ac_table, qtable, data, bs, tmp, z, s, steps) ==
    ac_symbol(ac_table, qtable, data, tmp, z, s,
              Append(steps,
                     [z |-> z, ok |-> s.ok,
                      symbol |-> IF s.ok THEN s.val ELSE None,
                      stored |-> None,
                      tried |-> IF s.ok THEN s.len
                                ELSE decode_steps(ac_table, data, bs),
                      pads |-> s.pads, pos |-> bs.pos,
                      marker |-> bs.marker_found]))

ac_loop(ac_table, qtable, data, bs, tmp, z, steps) ==
    ac_decoded(ac_table, qtable, data, bs, tmp, z,
               decode(ac_table, data, bs), steps)

\* decode_and_dequantize_block returns an error
block_fail(e, bs, dc_values) ==
    [ok |-> FALSE, err |-> e, bs |-> bs, dc_values |-> dc_values, tmp |-> <<>>,
     steps |-> <<>>]

\* decode_and_dequantize_block returns what its AC loop returns
block_result(dc_values, a) ==
    [ok |-> a.ok, err |-> a.err, bs |-> a.bs, dc_values |-> dc_values,
     tmp |-> a.tmp, steps |-> a.steps]

\* the Huffman table of a component: 0 for luma, 1 for chroma
table_id_of(component) == IF component = 0 THEN 0 ELSE 1

\* tmp[0] = (dc * qtable[0]) >> 8; tmp[1..].fill(0)
dc_block(dc, qtable) ==
    [j \in 1..64 |-> IF j = 1 THEN Shr(dc * qtable[1], 8) ELSE 0]

\* decode_and_dequantize_block from the updated DC predictors on
block_ac(dec, data, bs, dc_values, qtable, component) ==
    IF is_null(dec.huff_ac[table_id_of(component)])
    THEN block_fail("FormatError", bs, dc_values)
    ELSE block_result(dc_values,
                      ac_loop(dec.huff_ac[table_id_of(component)], qtable,
                              data, bs, dc_block(dc_values[component], qtable),
                              1, <<>>))

\* decode_and_dequantize_block from the read r of the dc_len DC bits on
block_dc_bits(dec, data, dc_values, qtable, component, dc_len, r) ==
    IF ~r.ok THEN block_fail(r.err, r.bs, dc_values)
    ELSE block_ac(dec, data, r.bs,
                  [dc_values EXCEPT ![component] =
                      ToI16(@ + (IF dc_len > 0 THEN extend(r.val, dc_len)
                                 ELSE 0))],
                  qtable, component)

\* decode_and_dequantize_block from the decoded DC code d on
block_dc_code(dec, data, dc_values, qtable, component, d) ==
    IF ~d.ok THEN block_fail(d.err, d.bs, dc_values)
    ELSE block_dc_bits(dec, data, dc_values, qtable, component, d.val,
                       IF d.val > 0 THEN read_bits(data, d.bs, d.val)
                       ELSE no_bits(d.bs))

\* JpegDecoder::decode_and_dequantize_block; dc_values is the decoder's
\* field, tmp the de-quantized block
decode_and_dequantize_block(dec, data, bs, dc_values, qtable_id, component) ==
    IF is_null(dec.qtables[qtable_id])
    THEN block_fail("FormatError", bs, dc_values)
    ELSE IF is_null(dec.huff_dc[table_id_of(component)])
    THEN block_fail("FormatError", bs, dc_values)
    ELSE block_dc_code(dec, data, dc_values, dec.qtables[qtable_id], component,
                       decode(dec.huff_dc[table_id_of(component)], data, bs))

\* the blocks of an MCU in decode order, as <<component, qtable id>>
mcu_blocks(dec) ==
    [i \in 1..(mcu_width_of(dec.sampling) * mcu_height_of(dec.sampling)) |->
        <<0, dec.qtable_ids[0]>>]
    \o (IF dec.num_components = 3
        THEN << <<1, dec.qtable_ids[1]>>, <<2, dec.qtable_ids[2]>> >>
        ELSE << >>)

\* JpegDecoder::decode_mcu from its block number i (0-based) on: block i
\* of the MCU is written to buffer[i*64 .. (i+1)*64)
RECURSIVE decode_mcu_from(_, _, _, _, _, _)

\* decode_mcu from the decoded block b, the block number i, on
mcu_block(dec, data, buffer, i, b) ==
    IF ~b.ok
    THEN [ok |-> FALSE, err |-> b.err, bs |-> b.bs,
          dc_values |-> b.dc_values, buffer |-> buffer]
    ELSE decode_mcu_from(dec, data, b.bs, b.dc_values,
                         SubSeq(buffer, 1, i * 64) \o block_idct(b.tmp)
                         \o SubSeq(buffer, (i + 1) * 64 + 1, Len(buffer)),
                         i + 1)

decode_mcu_from(dec, data, bs, dc_values, buffer, i) ==
    IF i >= Len(mcu_blocks(dec))
    THEN [ok |-> TRUE, err |-> "", bs |-> bs, dc_values |-> dc_values,
          buffer |-> buffer]
    ELSE mcu_block(dec, data, buffer, i,
                   decode_and_dequantize_block(dec, data, bs, dc_values,
                                               mcu_blocks(dec)[i + 1][2],
                                               mcu_blocks(dec)[i + 1][1]))

\* JpegDecoder::decode_mcu
decode_mcu(dec, data, bs, dc_values, buffer) ==
    decode_mcu_from(dec, data, bs, dc_values, buffer, 0)

\* Rectangle::new, Rectangle::width and Rectangle::height (u16, saturating)
Rectangle(left, right, top, bottom) ==
    [left |-> left, right |-> right, top |-> top, bottom |-> bottom]

rect_width(rect) ==
    Min({65535, (IF rect.right >= rect.left THEN rect.right - rect.left ELSE 0) + 1})

rect_height(rect) ==
    Min({65535, (IF rect.bottom >= rect.top THEN rect.bottom - rect.top ELSE 0) + 1})

\* The row compaction loop of output_mcu: pixel (_x, _y) of the rx by ry
\* tile is copied, three bytes at a time, from s = (_y*mx + _x)*3 to
\* d = (_y*rx + _x)*3.  d never passes s, so every byte read is a byte the
\* loop has not written, and the loop is this simultaneous copy.
compact_rows(work_buffer, rx, ry, mx) ==
    [n \in 1..Len(work_buffer) |->
        IF n <= ry * rx * 3
        THEN work_buffer[((n - 1) \div (rx * 3)) * mx * 3 + ((n - 1) % (rx * 3)) + 1]
        ELSE work_buffer[n]]

\* JpegDecoder::output_mcu up to the callback: whether the callback is
\* called, the rectangle and the work buffer it is called with; converted
\* is what mcu_to_rgb or mcu_to_grayscale has written
output_mcu(dec, mcu_buffer, work_buffer, x, y, mcu_width, mcu_height) ==
    LET mcu_pixel_width == mcu_width * 8
        mcu_pixel_height == mcu_height * 8
        out_width == Min({mcu_pixel_width, dec.width - x})
        out_height == Min({mcu_pixel_height, dec.height - y})
        scaled_width == Shr(out_width, dec.scale)
        scaled_height == Shr(out_height, dec.scale)
    IN  IF scaled_width = 0 \/ scaled_height = 0
        THEN [called |-> FALSE, rect |-> Rectangle(0, 0, 0, 0),
              converted |-> <<>>, work_buffer |-> work_buffer]
        ELSE
        LET rect == Rectangle(Shr(x, dec.scale),
                              Shr(x, dec.scale) + scaled_width - 1,
                              Shr(y, dec.scale),
                              Shr(y, dec.scale) + scaled_height - 1)
            conv == IF dec.num_components = 3
                    THEN mcu_to_rgb(mcu_buffer, mcu_width, mcu_height,
                                    mcu_width_of(dec.sampling),
                                    mcu_height_of(dec.sampling))
                    ELSE mcu_to_grayscale(mcu_buffer, mcu_width, mcu_height)
            wb1 == conv \o SubSeq(work_buffer, Len(conv) + 1, Len(work_buffer))
            rx == scaled_width
            ry == scaled_height
            mx == Shr(mcu_pixel_width, dec.scale)
        IN  [called |-> TRUE, rect |-> rect, converted |-> conv,
             work_buffer |-> IF rx < mx THEN compact_rows(wb1, rx, ry, mx)
                             ELSE wb1]

----------------------------------------------------------------------------
(* Inputs of the Huffman and bit stream specifications                     *)

\* longest entropy byte sequence drawn
MaxStreamLen == 4
\* most codes drawn for one code length
MaxPerLen == 2
\* most decode calls in a run of the tier comparison
MaxTierCalls == 4

\* the entropy bytes drawn: 0x00 (data, or the stuffing byte after 0xFF),
\* 0xD0 (data, or RST0 after 0xFF) and 0xFF
StreamBytes == {0, 208, 255}

Streams == UNION {[1..n -> StreamBytes] : n \in 0..MaxStreamLen}

\* a DHT histogram with n1, n2, n3 and n11 codes of 1, 2, 3 and 11 bits
HistOf(n1, n2, n3, n11) ==
    [L \in 1..16 |-> CASE L = 1 -> n1 [] L = 2 -> n2 [] L = 3 -> n3
                       [] L = 11 -> n11 [] OTHER -> 0]

\* its symbols: 16, 17, ...
ValuesOf(bits) == [i \in 1..SumBits(bits, 1, 16) |-> 15 + i]

Histograms ==
    {HistOf(n1, n2, n3, n11) :
        n1 \in 0..MaxPerLen, n2 \in 0..MaxPerLen, n3 \in 0..1, n11 \in 0..1}

\* the tables create_in_pool accepts among them
Tables ==
    {create_in_pool(bits, ValuesOf(bits)).tbl :
        bits \in {h \in Histograms : create_in_pool(h, ValuesOf(h)).ok}}

----------------------------------------------------------------------------
(* SpecTiers: the same decode calls made in the three builds               *)

TIdle ==
    /\ t_tbl = 0 /\ t_data = <<>> /\ t_s0 = 0 /\ t_s1 = 0 /\ t_s2 = 0
    /\ t_out = <<>> /\ t_calls = 0

BIdle ==
    /\ b_tbl = 0 /\ b_data = <<>> /\ b_bs = 0 /\ b_dead = FALSE
    /\ b_out = <<>> /\ b_base = <<>> /\ b_basePos = 0 /\ b_pads = 0
    /\ b_last = 0

DIdle ==
    /\ img = 0 /\ file = <<>> /\ decoder = 0 /\ mcu_buf = <<>>
    /\ work_buf = <<>> /\ pc = "off" /\ args = 0 /\ bitstream = 0
    /\ loop = 0 /\ sink_log = <<>> /\ trace = <<>> /\ calls = <<>>

MIdle ==
    /\ m_pool = 0 /\ m_build = "" /\ m_regions = <<>> /\ m_last = 0

HIdle ==
    /\ h_dec = 0 /\ h_pool = 0 /\ h_tier = 0 /\ h_last = 0 /\ h_n = 0

KIdle ==
    /\ k_in = 0 /\ k_out = 0

CIdle ==
    /\ c_build = "" /\ c_dec = 0 /\ c_loop = 0

RIdle ==
    /\ r_data = <<>> /\ r_tier = 0 /\ r_pc = "off" /\ r_st = 0
    /\ r_pos = 0 /\ r_result = ""

TInit ==
    /\ t_tbl \in Tables
    /\ t_data \in Streams
    /\ t_s0 = BitStreamNew /\ t_s1 = BitStreamNew /\ t_s2 = BitStreamNew
    /\ t_out = <<>>
    /\ t_calls = 0
    /\ BIdle /\ DIdle /\ MIdle /\ HIdle /\ KIdle /\ CIdle /\ RIdle
    /\ tick = 0

\* what a caller sees of a decode call
Outcome(r) == [ok |-> r.ok, val |-> r.val]

\* HuffmanTable::decode, called once more in each build
TierDecode ==
    /\ t_calls < MaxTierCalls
    /\ \A i \in 1..Len(t_out) : t_out[i].ok
    /\ LET r0 == decode_fastdecode0(t_tbl, t_data, t_s0)
           r1 == decode_fastdecode1(t_tbl, t_data, t_s1)
           r2 == decode_fastdecode2(t_tbl, t_data, t_s2)
       IN  /\ t_s0' = r0.bs /\ t_s1' = r1.bs /\ t_s2' = r2.bs
           /\ t_out' = <<Outcome(r0), Outcome(r1), Outcome(r2)>>
    /\ t_calls' = t_calls + 1
    /\ UNCHANGED <<t_tbl, t_data, bvars, dvars, mvars, hvars, kvars, cvars, rvars, tick>>

TNext == TierDecode

SpecTiers == TInit /\ [][TNext]_vars

\* C1: on every decode call the three tiers give the same outcome: the same
\* symbol in all three, or an error in all three.
C1_TiersAgree ==
    t_out # <<>> =>
        /\ t_out[1].ok = t_out[2].ok /\ t_out[2].ok = t_out[3].ok
        /\ t_out[1].ok => (t_out[1].val = t_out[2].val /\ t_out[2].val = t_out[3].val)

----------------------------------------------------------------------------
(* SpecBits: one bit stream of the default build, read by read_bits,       *)
(* read_bit and Huffman decode calls, with get_marker between them.        *)

\* most 0xFF pad bytes generated while a marker is pending
MaxPads == 2

\* the bit counts asked of read_bits
ReadSizes == {0, 3, 16, 17}

\* the tables of the decode calls: codes of 1, 2, 3 and 11 bits
BitTables ==
    {t \in Tables : /\ t.bits[1] = 1 /\ t.bits[2] = 1
                    /\ t.bits[3] = 1 /\ t.bits[11] = 1}

\* n as k bits, most significant first
NumBits(n, k) == [i \in 1..k |-> (n \div Pow2(k - i)) % 2]

\* the bits of a byte sequence, most significant first
BitsOf(bytes) ==
    [i \in 1..(8 * Len(bytes)) |->
        (bytes[((i - 1) \div 8) + 1] \div Pow2(7 - ((i - 1) % 8))) % 2]

\* the valid window of the register, most significant first
WindowBits(bs) ==
    NumBits(U32Low(bs.bit_buffer, bs.bits_in_buffer), bs.bits_in_buffer)

\* The logical bytes of a raw byte sequence: 0xFF 0x00 counts as the byte
\* 0xFF, and 0xFF b with b # 0 is the byte 0xFF followed by the marker b.
RECURSIVE Unstuff(_)
Unstuff(raw) ==
    IF raw = <<>> THEN <<>>
    ELSE IF raw[1] # 255 THEN <<raw[1]>> \o Unstuff(Tail(raw))
    ELSE IF Len(raw) = 1 THEN <<>>
    ELSE <<255>> \o Unstuff(Tail(Tail(raw)))

\* the marker that ends a raw byte sequence, if one does
RECURSIVE MarkerOf(_)
MarkerOf(raw) ==
    IF raw = <<>> THEN None
    ELSE IF raw[1] # 255 THEN MarkerOf(Tail(raw))
    ELSE IF Len(raw) = 1 THEN None
    ELSE IF Len(raw) = 2 THEN (IF raw[2] # 0 THEN raw[2] ELSE None)
    ELSE MarkerOf(Tail(Tail(raw)))

\* the raw bytes read since the last get_marker that took a marker
BSegment == SubSeq(b_data, b_basePos + 1, b_bs.pos)

\* the logical bytes that have entered the register since the last reset
BLogical == b_base \o Unstuff(BSegment) \o [i \in 1..b_pads |-> 255]

BInit ==
    /\ b_tbl \in BitTables
    /\ b_data \in Streams
    /\ b_bs = BitStreamNew
    /\ b_dead = FALSE
    /\ b_out = <<>>
    /\ b_base = <<>>
    /\ b_basePos = 0
    /\ b_pads = 0
    /\ b_last = [op |-> "read", ret |-> None]
    /\ TIdle /\ DIdle /\ MIdle /\ HIdle /\ KIdle /\ CIdle /\ RIdle
    /\ tick = 0

BAlive == ~b_dead /\ b_pads <= MaxPads

\* the history of a read that returned r, having delivered the bits d
BRead(r, d) ==
    /\ b_bs' = r.bs
    /\ b_dead' = ~r.ok
    /\ b_out' = IF r.ok THEN b_out \o d ELSE b_out
    /\ b_pads' = b_pads + r.pads
    /\ b_last' = [op |-> "read", ret |-> None]
    /\ UNCHANGED <<b_tbl, b_data, b_base, b_basePos, tvars, dvars, mvars, hvars,
                   kvars, cvars, rvars, tick>>

\* BitStream::read_bits(nbit)
BReadBits ==
    /\ BAlive
    /\ \E nbit \in ReadSizes :
         LET r == read_bits(b_data, b_bs, nbit) IN
         BRead(r, NumBits(r.val, IF nbit <= 16 THEN nbit ELSE 0))

\* BitStream::read_bit
BReadBit ==
    /\ BAlive
    /\ LET r == read_bit(b_data, b_bs) IN BRead(r, <<r.val>>)

\* HuffmanTable::decode (default build: decode_fastdecode1)
BDecode ==
    /\ BAlive
    /\ LET r == decode_fastdecode1(b_tbl, b_data, b_bs) IN
       BRead(r,
             IF r.ok THEN NumBits(decode1_bits(b_tbl, b_data, b_bs), r.len)
             ELSE <<>>)

\* BitStream::get_marker
BGetMarker ==
    /\ BAlive
    /\ LET r == get_marker(b_bs) IN
       /\ b_bs' = r.bs
       /\ b_last' = [op |-> "get_marker", ret |-> r.val]
    /\ IF b_bs.marker_found # None
       THEN b_base' = BLogical /\ b_basePos' = b_bs.pos /\ b_pads' = 0
       ELSE UNCHANGED <<b_base, b_basePos, b_pads>>
    /\ UNCHANGED <<b_tbl, b_data, b_dead, b_out, tvars, dvars, mvars, hvars,
                   kvars, cvars, rvars, tick>>

BNext == BReadBits \/ BReadBit \/ BDecode \/ BGetMarker

SpecBits == BInit /\ [][BNext]_vars

\* C3, in every state: as long as no read has failed, the bits delivered so
\* far followed by the bits waiting in the register are the MSB-first bits
\* of the logical byte sequence (0xFF 0x00 read as 0xFF; 0xFF b, b # 0, read
\* as 0xFF; then 0xFF padding while the marker is pending), and the pending
\* marker is the byte b of the 0xFF b pair that ends the bytes read.
C3_State ==
    ~b_dead =>
        /\ b_out \o WindowBits(b_bs) = BitsOf(BLogical)
        /\ b_bs.marker_found = MarkerOf(BSegment)

\* C3, on every get_marker call: it returns the pending marker b and
\* leaves none pending, and a get_marker that immediately follows a
\* get_marker returns nothing.
C3_Step ==
    b_last'.op = "get_marker" =>
        /\ b_last'.ret = MarkerOf(BSegment)
        /\ b_bs'.marker_found = None
        /\ (b_last.op = "get_marker" => b_last'.ret = None)

\* C3: read_bits, read_bit and Huffman decode calls deliver the MSB-first
\* bits of the entropy bytes with each 0xFF 0x00 pair counted as the byte
\* 0xFF; 0xFF followed by b # 0 stores b as the pending marker and injects
\* 0xFF; get_marker returns b exactly once.
C3_BitsAndMarker == [](C3_State) /\ [][C3_Step]_vars

\* C3 witness: after a stuffed 0xFF 0x00 pair and a 0xFF 0xD0 pair were
\* read and their sixteen 1-bits delivered, get_marker has returned 0xD0.
C3_Witness ==
    /\ b_last.op = "get_marker" /\ b_last.ret = 208
    /\ Len(b_data) >= 4 /\ SubSeq(b_data, 1, 4) = <<255, 0, 255, 208>>
    /\ Len(b_out) >= 16

----------------------------------------------------------------------------
(* The images decompress is run on.  An image is described by its frame    *)
(* (components, sampling, size), its restart interval, and the blocks of   *)
(* its scan; the file is what a baseline encoder writes for it, and the    *)
(* prepared decoder holds what the file's headers say.                     *)

\* most MCU columns and MCU rows of an image
MaxCols == 2
MaxRows == 2
\* largest restart interval
MaxInterval == 2

\* the file's Huffman tables: DC codes 00, 01 for the categories 0 and 3;
\* AC codes 00, 01, 10, 110 for EOB, (run 0, size 1), ZRL and
\* (run 14, size 10)
DcTable == create_in_pool(HistOf(0, 2, 0, 0), <<0, 3>>).tbl
AcTable == create_in_pool(HistOf(0, 3, 1, 0), <<0, 1, 240, 234>>).tbl

\* the table parse_dqt builds from 64 quantizers all equal to q
QTable(q) == [j \in 1..64 |-> q * ARAI_SCALE_FACTOR[j]]

\* the quantizers of the file's tables 0 and 1
Quantizers == <<16, 8>>

\* the blocks a scan is made of: the DC difference, the AC coefficients as
\* <<run, value>> (<<15, 0>> is ZRL), and whether EOB ends the block
Flat == [dc |-> 0, ac |-> <<>>, eob |-> TRUE]
Wavy(d) == [dc |-> d, ac |-> << <<0, 1>>, <<0, -1>> >>, eob |-> TRUE]
Full == [dc |-> 0,
         ac |-> << <<15, 0>>, <<15, 0>>, <<15, 0>>, <<14, 512>> >>,
         eob |-> FALSE]

\* the scans: block n of the scan is pattern[(n % Len(pattern)) + 1]
Patterns == { <<Flat>>, <<Wavy(5), Wavy(-6), Flat>>, <<Full>>, <<Flat, Full>> }

\* the number of bits of |d|
RECURSIVE Category(_)
Category(d) ==
    IF d = 0 THEN 0
    ELSE LET a == IF d < 0 THEN -d ELSE d IN 1 + Category(a \div 2)

\* the bits that follow the Huffman code of a coefficient d
ValueBits(d) ==
    IF d = 0 THEN <<>>
    ELSE NumBits(IF d > 0 THEN d ELSE d + Pow2(Category(d)) - 1, Category(d))

\* the code of the symbol sym in the table tbl
HuffCode(tbl, sym) ==
    LET idx == CHOOSE i \in 1..tbl.num_codes : tbl.data[i] = sym
    IN  NumBits(tbl.codes[idx], LenOfIdx(tbl.bits, idx - 1, 1))

RECURSIVE AcBits(_, _)
AcBits(tbl, ac) ==
    IF ac = <<>> THEN <<>>
    ELSE HuffCode(tbl, ac[1][1] * 16 + Category(ac[1][2]))
         \o ValueBits(ac[1][2]) \o AcBits(tbl, Tail(ac))

\* the entropy bits of one block
BlockBits(b) ==
    HuffCode(DcTable, Category(b.dc)) \o ValueBits(b.dc)
    \o AcBits(AcTable, b.ac)
    \o (IF b.eob THEN HuffCode(AcTable, 0) ELSE <<>>)

\* blocks per MCU, MCUs per image
BlocksPerMcu(im) ==
    mcu_width_of(im.sampling) * mcu_height_of(im.sampling)
    + (IF im.num_components = 3 THEN 2 ELSE 0)

McuCols(im) ==
    (im.width + mcu_width_of(im.sampling) * 8 - 1) \div (mcu_width_of(im.sampling) * 8)

McuRows(im) ==
    (im.height + mcu_height_of(im.sampling) * 8 - 1) \div (mcu_height_of(im.sampling) * 8)

McuCount(im) == McuCols(im) * McuRows(im)

\* the entropy bits of the blocks first .. last (0-based) of the scan
RECURSIVE ScanBits(_, _, _)
ScanBits(im, first, last) ==
    IF first > last THEN <<>>
    ELSE BlockBits(im.pattern[(first % Len(im.pattern)) + 1])
         \o ScanBits(im, first + 1, last)

\* bits as bytes, the last byte completed with 1-bits
RECURSIVE BytesOf(_)
BytesOf(bits) ==
    IF bits = <<>> THEN <<>>
    ELSE LET b == [i \in 1..8 |-> IF i <= Len(bits) THEN bits[i] ELSE 1]
             v == b[1] * 128 + b[2] * 64 + b[3] * 32 + b[4] * 16
                  + b[5] * 8 + b[6] * 4 + b[7] * 2 + b[8]
         IN  <<v>> \o (IF Len(bits) <= 8 THEN <<>>
                       ELSE BytesOf(SubSeq(bits, 9, Len(bits))))

\* byte stuffing: 0xFF is written as 0xFF 0x00
RECURSIVE Stuff(_)
Stuff(bytes) ==
    IF bytes = <<>> THEN <<>>
    ELSE (IF bytes[1] = 255 THEN <<255, 0>> ELSE <<bytes[1]>>)
         \o Stuff(Tail(bytes))

\* the MCUs per restart interval: all of them without DRI
IntervalLen(im) ==
    IF im.restart_interval = 0 THEN McuCount(im) ELSE im.restart_interval

\* the entropy bytes of restart interval j (0-based)
IntervalBytes(im, j) ==
    LET firstMcu == j * IntervalLen(im)
        lastMcu == Min({McuCount(im), firstMcu + IntervalLen(im)}) - 1
    IN  Stuff(BytesOf(ScanBits(im, firstMcu * BlocksPerMcu(im),
                               (lastMcu + 1) * BlocksPerMcu(im) - 1)))

IntervalCount(im) == (McuCount(im) + IntervalLen(im) - 1) \div IntervalLen(im)

\* the scan: the intervals with RSTn between them, then EOI
RECURSIVE ScanFrom(_, _)
ScanFrom(im, j) ==
    IF j = IntervalCount(im) - 1 THEN IntervalBytes(im, j) \o <<255, 217>>
    ELSE IntervalBytes(im, j) \o <<255, 208 + (j % 8)>> \o ScanFrom(im, j + 1)

ScanBytes(im) ==
    LET whole == ScanFrom(im, 0) IN
    IF im.damage = "truncated" THEN SubSeq(whole, 1, Len(whole) - 3)
    ELSE whole

\* the offset in the scan of the byte that follows the j-th RSTn (j >= 1)
RECURSIVE RstEnd(_, _)
RstEnd(im, j) ==
    IF j = 0 THEN 0
    ELSE RstEnd(im, j - 1) + Len(IntervalBytes(im, j - 1)) + 2

\* the segments of the file
SoiBytes == <<255, 216>>

DqtBytes(id, q) == <<255, 219, 0, 67, id>> \o [i \in 1..64 |-> q]

SofBytes(im) ==
    <<255, 192, 0, 8 + 3 * im.num_components, 8,
      im.height \div 256, im.height % 256, im.width \div 256, im.width % 256,
      im.num_components,
      1, mcu_width_of(im.sampling) * 16 + mcu_height_of(im.sampling), 0>>
    \o (IF im.num_components = 3 THEN <<2, 17, 1, 3, 17, 1>> ELSE <<>>)

DhtBytes(class, id, tbl) ==
    <<255, 196, 0, 19 + tbl.num_codes, class * 16 + id>> \o tbl.bits \o tbl.data

DriBytes(im) ==
    IF im.restart_interval = 0 THEN <<>>
    ELSE <<255, 221, 0, 4, im.restart_interval \div 256, im.restart_interval % 256>>

SosBytes(im) ==
    <<255, 218, 0, 6 + 2 * im.num_components, im.num_components, 1, 0>>
    \o (IF im.num_components = 3 THEN <<2, 17, 3, 17>> ELSE <<>>)
    \o <<0, 63, 0>>

\* the file up to its SOS segment
HeaderBytes(im) ==
    SoiBytes
    \o DqtBytes(0, Quantizers[1])
    \o (IF im.num_components = 3 THEN DqtBytes(1, Quantizers[2]) ELSE <<>>)
    \o SofBytes(im)
    \o DhtBytes(0, 0, DcTable) \o DhtBytes(1, 0, AcTable)
    \o (IF im.num_components = 3
        THEN DhtBytes(0, 1, DcTable) \o DhtBytes(1, 1, AcTable) ELSE <<>>)
    \o DriBytes(im)

FileOf(im) == HeaderBytes(im) \o SosBytes(im) \o ScanBytes(im)

\* JpegDecoder::new followed by prepare on FileOf(im): the fields as the
\* segments of the file set them
PreparedOf(im) ==
    [width |-> im.width,
     height |-> im.height,
     num_components |-> im.num_components,
     sampling |-> im.sampling,
     huff_dc |-> [id \in 0..1 |->
                    IF id = 0 \/ im.num_components = 3 THEN DcTable ELSE <<>>],
     huff_ac |-> [id \in 0..1 |->
                    IF id = 0 \/ im.num_components = 3 THEN AcTable ELSE <<>>],
     qtables |-> [id \in 0..3 |->
                    IF id = 0 THEN QTable(Quantizers[1])
                    ELSE IF id = 1 /\ im.num_components = 3
                    THEN QTable(Quantizers[2]) ELSE <<>>],
     qtable_ids |-> [i \in 0..2 |->
                       IF i > 0 /\ im.num_components = 3 THEN 1 ELSE 0],
     dc_values |-> [i \in 0..2 |-> 0],
     restart_interval |-> im.restart_interval,
     scale |-> 0,
     sos_position |-> Len(HeaderBytes(im))]

\* an image of cols by rows MCUs, its last column and row 4 pixels wide
\* and high if clipx, clipy
ImageOf(nc, sampling, cols, clipx, rows, clipy, ri, pattern, damage) ==
    [num_components |-> nc,
     sampling |-> sampling,
     width |-> mcu_width_of(sampling) * 8 * cols - (IF clipx THEN mcu_width_of(sampling) * 8 - 4 ELSE 0),
     height |-> mcu_height_of(sampling) * 8 * rows - (IF clipy THEN mcu_height_of(sampling) * 8 - 4 ELSE 0),
     restart_interval |-> ri,
     pattern |-> pattern,
     damage |-> damage]

\* The images.  Grayscale 4:4:4 images of every grid with every scan and
\* restart interval, whole or, without restarts, truncated; and for every
\* frame an image with the last column, or the last column and the last
\* row, clipped.
Images ==
    {ImageOf(1, "Yuv444", cols, FALSE, rows, FALSE, ri, pattern, "none") :
        cols \in 1..MaxCols, rows \in 1..MaxRows, ri \in 0..MaxInterval,
        pattern \in Patterns}
    \cup
    {ImageOf(1, "Yuv444", cols, FALSE, rows, FALSE, 0, pattern, "truncated") :
        cols \in 1..MaxCols, rows \in 1..MaxRows,
        pattern \in {<<Wavy(5), Wavy(-6), Flat>>, <<Full>>}}
    \cup
    {ImageOf(f[1], f[2], MaxCols, clip[1], rows, clip[2], ri,
             <<Wavy(5), Wavy(-6), Flat>>, "none") :
        f \in {<<1, "Yuv444">>, <<1, "Yuv422">>, <<1, "Yuv420">>,
               <<3, "Yuv444">>, <<3, "Yuv422">>, <<3, "Yuv420">>},
        clip \in {<<TRUE, FALSE>>, <<TRUE, TRUE>>},
        rows \in {1, MaxRows}, ri \in {0, MaxInterval}}

----------------------------------------------------------------------------
(* Spec: decompress calls on a prepared decoder                            *)

\* most decompress calls in a run
MaxCalls == 2
\* largest scale argument
MaxScale == 4
\* the latest sink invocation at which a sink stops or fails
MaxSinkAt == 2

\* the error a failing sink returns
SinkError == "InsufficientBuffer"

\* the sinks: always continue, or stop / fail at the invocation `at`
Sinks ==
    {[kind |-> "continue", at |-> 0]}
    \cup {[kind |-> k, at |-> n] : k \in {"stop", "error"}, n \in 1..MaxSinkAt}

\* what the sink returns on its n-th invocation
SinkReturn(sink, n) ==
    IF sink.kind # "continue" /\ n = sink.at THEN sink.kind ELSE "continue"

\* The arguments of a call: the scale, the lengths of the two buffer
\* slices and the sink.
ArgsOf(sc, mcu_short, work_short, sk) ==
    [scale |-> sc, mcu_len |-> mcu_buffer_size(decoder) - mcu_short,
     work_len |-> work_buffer_size(decoder) - work_short, sink |-> sk]

\* full buffers, a valid scale and a sink that always continues
GoodArgs == {ArgsOf(sc, 0, 0, [kind |-> "continue", at |-> 0]) : sc \in 0..3}

\* a scale above 3, or a buffer one element short
BadArgs ==
    {ArgsOf(sc, 0, 0, [kind |-> "continue", at |-> 0]) : sc \in 4..MaxScale}
    \cup {ArgsOf(0, 1, 0, [kind |-> "continue", at |-> 0]),
          ArgsOf(0, 0, 1, [kind |-> "continue", at |-> 0])}

\* a sink that stops or fails, at the scales 0 and 3
SinkArgs ==
    {ArgsOf(sc, 0, 0, sk) : sc \in {0, 3}, sk \in Sinks \ {[kind |-> "continue", at |-> 0]}}

\* The calls made: any first call; after a call with good arguments, the
\* same call again or one with bad arguments.
CallArgs ==
    IF calls = <<>> THEN GoodArgs \cup BadArgs \cup SinkArgs
    ELSE IF calls[Len(calls)].args \in GoodArgs
    THEN {calls[Len(calls)].args} \cup BadArgs
    ELSE {}

DInit ==
    /\ img \in Images
    /\ file = FileOf(img)
    /\ decoder = PreparedOf(img)
    /\ mcu_buf = [j \in 1..mcu_buffer_size(PreparedOf(img)) |-> 0]
    /\ work_buf = [j \in 1..work_buffer_size(PreparedOf(img)) |-> 0]
    /\ pc = "idle"
    /\ args = [scale |-> 0, mcu_len |-> 0, work_len |-> 0,
               sink |-> [kind |-> "continue", at |-> 0]]
    /\ bitstream = BitStreamNew
    /\ loop = [mcu_x |-> 0, mcu_y |-> 0, restart_counter |-> 0,
               restart_marker |-> 0]
    /\ sink_log = <<>>
    /\ trace = [before |-> [scale |-> 0, dc_values |-> [i \in 0..2 |-> 0]],
                raw |-> <<img.width, img.height>>,
                starts |-> <<>>, resets |-> <<>>, decoded |-> 0, failed |-> ""]
    /\ calls = <<>>
    /\ TIdle /\ BIdle /\ MIdle /\ HIdle /\ KIdle /\ CIdle /\ RIdle
    /\ tick = 0

\* a call returns: its record joins the history
Returns(a, result, d, log, tr) ==
    /\ pc' = "idle"
    /\ calls' = Append(calls, [args |-> a, result |-> result, log |-> log,
                               before |-> tr.before,
                               after |-> [scale |-> d.scale,
                                          dc_values |-> d.dc_values],
                               decoded |-> tr.decoded,
                               failed |-> tr.failed,
                               raw_before |-> tr.raw,
                               raw_after |-> <<raw_width(d), raw_height(d)>>,
                               width |-> width(d),
                               height |-> height(d)])

\* [0; 3]
ZeroDc == [i \in 0..2 |-> 0]

\* decompress_begin without the assignment to dc_values
decompress_begin_keep_dc(dec, data, a) ==
    IF a.scale > 3 THEN [ok |-> FALSE, err |-> "Parameter", dec |-> dec]
    ELSE IF a.mcu_len < mcu_buffer_size(dec)
    THEN [ok |-> FALSE, err |-> "InsufficientMemory", dec |-> dec]
    ELSE IF a.work_len < work_buffer_size(dec)
    THEN [ok |-> FALSE, err |-> "InsufficientMemory", dec |-> dec]
    ELSE LET dec1 == [dec EXCEPT !.scale = a.scale]
             f == find_scan_data(dec1, data)
         IN  [ok |-> f.ok, err |-> f.err, dec |-> dec1]

\* decompress_begin with the assignments to scale and dc_values made before
\* the argument checks
decompress_begin_assign_first(dec, data, a) ==
    LET dec1 == [dec EXCEPT !.scale = a.scale, !.dc_values = ZeroDc] IN
    IF a.scale > 3 THEN [ok |-> FALSE, err |-> "Parameter", dec |-> dec1]
    ELSE IF a.mcu_len < mcu_buffer_size(dec)
    THEN [ok |-> FALSE, err |-> "InsufficientMemory", dec |-> dec1]
    ELSE IF a.work_len < work_buffer_size(dec)
    THEN [ok |-> FALSE, err |-> "InsufficientMemory", dec |-> dec1]
    ELSE LET f == find_scan_data(dec1, data)
         IN  [ok |-> f.ok, err |-> f.err, dec |-> dec1]

\* JpegDecoder::decompress up to its MCU loop: the argument checks, the
\* assignments to scale and dc_values, find_scan_data
decompress_begin(dec, data, a) ==
    IF a.scale > 3 THEN [ok |-> FALSE, err |-> "Parameter", dec |-> dec]
    ELSE IF a.mcu_len < mcu_buffer_size(dec)
    THEN [ok |-> FALSE, err |-> "InsufficientMemory", dec |-> dec]
    ELSE IF a.work_len < work_buffer_size(dec)
    THEN [ok |-> FALSE, err |-> "InsufficientMemory", dec |-> dec]
    ELSE LET dec1 == [dec EXCEPT !.scale = a.scale, !.dc_values = ZeroDc]
             f == find_scan_data(dec1, data)
         IN  [ok |-> f.ok, err |-> f.err, dec |-> dec1]

\* callback_result that goes on when the callback returns stop
callback_result_no_stop(ret) ==
    CASE ret = "continue" -> "Ok"
      [] ret = "stop" -> "Ok"
      [] OTHER -> SinkError

\* the end of output_mcu: what it returns for what the callback returned
callback_result(ret) ==
    CASE ret = "continue" -> "Ok"
      [] ret = "stop" -> "Interrupted"
      [] OTHER -> SinkError

\* the scan data decompress reads: &data[scan_start..]
ScanData == SubSeq(file, find_scan_data(decoder, file).start + 1, Len(file))

\* the MCU loop has an iteration to run
InLoop == loop.mcu_y < decoder.height /\ loop.mcu_x < decoder.width

\* bytes per pixel of the tile the sink is given
Bpp(dec) == IF dec.num_components = 3 THEN 3 ELSE 1

\* the pixel bytes of the tile that output_mcu hands to the sink: the first
\* rect.width() * rect.height() * bpp bytes of the work buffer
TilePixels(dec, o) ==
    SubSeq(o.work_buffer, 1, rect_width(o.rect) * rect_height(o.rect) * Bpp(dec))

\* The restart check at the top of an iteration of the MCU loop, lines
\* 458-463: the bit stream, the DC predictors and the loop state after it,
\* and the history with the start of the MCU.
restart_check(dec, bs, lp, tr) ==
    IF dec.restart_interval > 0 /\ lp.restart_counter >= dec.restart_interval
    THEN [bs |-> reset_for_restart(bs),
          dc_values |-> ZeroDc,
          lp |-> [lp EXCEPT !.restart_counter = 0,
                            !.restart_marker = (@ + 1) % 8],
          tr |-> [tr EXCEPT
                    !.starts = Append(@, [pos |-> bs.pos, bits |-> 0,
                                          marker |-> None,
                                          dc_values |-> ZeroDc]),
                    !.resets = Append(@, [cause |-> "counter",
                                          decoded |-> tr.decoded])]]
    ELSE [bs |-> bs, dc_values |-> dec.dc_values, lp |-> lp,
          tr |-> [tr EXCEPT
                    !.starts = Append(@, [pos |-> bs.pos,
                                          bits |-> bs.bits_in_buffer,
                                          marker |-> bs.marker_found,
                                          dc_values |-> dec.dc_values])]]

\* The marker check after decode_mcu, lines 467-473; g is what get_marker
\* returns, st the state after the restart check.
marker_check(st, dc_values, g) ==
    IF g.val >= 208 /\ g.val <= 215
    THEN [bs |-> reset_for_restart(g.bs),
          dc_values |-> ZeroDc,
          restart_marker |-> ((g.val - 208) + 1) % 8,
          tr |-> [st.tr EXCEPT
                    !.decoded = @ + 1,
                    !.resets = Append(@, [cause |-> "marker",
                                          decoded |-> st.tr.decoded + 1])]]
    ELSE [bs |-> g.bs, dc_values |-> dc_values,
          restart_marker |-> st.lp.restart_marker,
          tr |-> [st.tr EXCEPT !.decoded = @ + 1]]

\* the loop state of the next iteration: the next MCU in raster order and
\* restart_counter += 1
next_mcu(dec, lp, restart_marker) ==
    IF lp.mcu_x + mcu_width_of(dec.sampling) * 8 < dec.width
    THEN [mcu_x |-> lp.mcu_x + mcu_width_of(dec.sampling) * 8,
          mcu_y |-> lp.mcu_y,
          restart_counter |-> lp.restart_counter + 1,
          restart_marker |-> restart_marker]
    ELSE [mcu_x |-> 0,
          mcu_y |-> lp.mcu_y + mcu_height_of(dec.sampling) * 8,
          restart_counter |-> lp.restart_counter + 1,
          restart_marker |-> restart_marker]

\* what the sink has been called with, after output_mcu has returned o; o0
\* is what output_mcu returns for the same MCU at scale 0; width and height
\* are what the accessors of the decoder give the sink
sink_called(dec, log, o, o0) ==
    IF o.called
    THEN Append(log, [rect |-> o.rect,
                      pixels |-> TilePixels(dec, o),
                      converted |-> o.converted,
                      rect0 |-> o0.rect,
                      pixels0 |-> TilePixels(dec, o0),
                      width |-> width(dec), height |-> height(dec)])
    ELSE log

\* the iteration from the return ret of output_mcu on
mcu_output(dec, mcu_buffer, st, mk, o, log, ret) ==
    [result |-> IF ret = "Ok" THEN "" ELSE ret,
     dec |-> dec, bs |-> mk.bs, mcu_buffer |-> mcu_buffer,
     work_buffer |-> o.work_buffer,
     lp |-> IF ret = "Ok" THEN next_mcu(dec, st.lp, mk.restart_marker)
            ELSE [st.lp EXCEPT !.restart_marker = mk.restart_marker],
     log |-> log, tr |-> mk.tr]

\* the iteration from the call of output_mcu on
mcu_sink(dec, mcu_buffer, sink, log, st, mk, o, o0) ==
    mcu_output(dec, mcu_buffer, st, mk, o, sink_called(dec, log, o, o0),
               IF o.called
               THEN callback_result(SinkReturn(sink, Len(log) + 1))
               ELSE "Ok")

\* the decoder at scale 0
at_scale_0(dec) == [dec EXCEPT !.scale = 0]

\* the iteration from the marker check on; dec has the DC predictors that
\* the marker check has left
mcu_marker(dec, mcu_buffer, work_buffer, sink, log, st, mk) ==
    mcu_sink(dec, mcu_buffer, sink, log, st, mk,
             output_mcu(dec, mcu_buffer, work_buffer, st.lp.mcu_x, st.lp.mcu_y,
                        mcu_width_of(dec.sampling), mcu_height_of(dec.sampling)),
             output_mcu(at_scale_0(dec), mcu_buffer, work_buffer,
                        st.lp.mcu_x, st.lp.mcu_y,
                        mcu_width_of(dec.sampling), mcu_height_of(dec.sampling)))

\* the decoder with the DC predictors dc_values
with_dc(dec, dc_values) == [dec EXCEPT !.dc_values = dc_values]

\* the iteration from the return m of decode_mcu on
mcu_decoded(dec, work_buffer, sink, log, st, m) ==
    IF ~m.ok
    THEN [result |-> m.err,
          dec |-> with_dc(dec, m.dc_values),
          bs |-> m.bs, mcu_buffer |-> m.buffer,
          work_buffer |-> work_buffer,
          lp |-> st.lp,
          log |-> log, tr |-> [st.tr EXCEPT !.failed = m.err]]
    ELSE mcu_marker(with_dc(dec, marker_check(st, m.dc_values,
                                              get_marker(m.bs)).dc_values),
                    m.buffer, work_buffer, sink, log, st,
                    marker_check(st, m.dc_values, get_marker(m.bs)))

\* the iteration from the restart check on
mcu_restarted(dec, scan, mcu_buffer, work_buffer, sink, log, st) ==
    mcu_decoded(dec, work_buffer, sink, log, st,
                decode_mcu(dec, scan, st.bs, st.dc_values, mcu_buffer))

\* One iteration of the MCU loop of decompress, lines 458-485: the
\* restart check, decode_mcu, get_marker, output_mcu with its call of the
\* sink, and the counter.  lp is the loop state, log what the sink has been
\* called with, tr the history.  result is "" if the loop goes on, and else
\* what decompress returns.  An entry of log holds the rectangle and the
\* pixel bytes of the tile, what the colour conversion wrote for the MCU
\* (converted), and the tile that the same MCU gives at scale 0 (rect0,
\* pixels0).
mcu_iteration(dec, scan, bs, lp, mcu_buffer, work_buffer, sink, log, tr) ==
    mcu_restarted(dec, scan, mcu_buffer, work_buffer, sink, log,
                  restart_check(dec, bs, lp, tr))

\* a call of decompress, up to the MCU loop
Decompress ==
    /\ pc = "idle"
    /\ Len(calls) < MaxCalls
    /\ \E a \in CallArgs :
       \E b \in {decompress_begin(decoder, file, a)} :
       \E tr \in {[before |-> [scale |-> decoder.scale,
                               dc_values |-> decoder.dc_values],
                   raw |-> <<raw_width(decoder), raw_height(decoder)>>,
                   starts |-> <<>>, resets |-> <<>>, decoded |-> 0,
                   failed |-> ""]} :
         /\ args' = a
         /\ decoder' = b.dec
         /\ sink_log' = <<>>
         /\ trace' = tr
         /\ IF b.ok
            THEN /\ bitstream' = BitStreamNew
                 /\ loop' = [mcu_x |-> 0, mcu_y |-> 0,
                             restart_counter |-> 0, restart_marker |-> 0]
                 /\ pc' = "loop"
                 /\ UNCHANGED calls
            ELSE /\ Returns(a, b.err, b.dec, <<>>, tr)
                 /\ UNCHANGED <<bitstream, loop>>
    /\ UNCHANGED <<img, file, mcu_buf, work_buf, tvars, bvars, mvars, hvars,
                   kvars, cvars, rvars, tick>>

\* one iteration of the MCU loop
McuStep ==
    /\ pc = "loop"
    /\ InLoop
    /\ \E it \in {mcu_iteration(decoder, ScanData, bitstream, loop, mcu_buf,
                                work_buf, args.sink, sink_log, trace)} :
         /\ decoder' = it.dec
         /\ bitstream' = it.bs
         /\ mcu_buf' = it.mcu_buffer
         /\ work_buf' = it.work_buffer
         /\ loop' = it.lp
         /\ sink_log' = it.log
         /\ trace' = it.tr
         /\ IF it.result = "" THEN UNCHANGED <<pc, calls>>
            ELSE Returns(args, it.result, it.dec, it.log, it.tr)
    /\ UNCHANGED <<img, file, args, tvars, bvars, mvars, hvars, kvars, cvars, rvars>>
    /\ tick' = 1 - tick

\* the MCU loop is over: decompress returns Ok(())
Return ==
    /\ pc = "loop"
    /\ ~InLoop
    /\ Returns(args, "Ok", decoder, sink_log, trace)
    /\ UNCHANGED <<img, file, decoder, mcu_buf, work_buf, args, bitstream, loop,
                   sink_log, trace, tvars, bvars, mvars, hvars, kvars, cvars, rvars>>
    /\ tick' = 1 - tick

Next == Decompress \/ McuStep \/ Return

Spec == DInit /\ [][Next]_vars

----------------------------------------------------------------------------
(* Claims about decompress                                                 *)

\* the call in progress, or the last one, is made with good arguments
GoodCall ==
    /\ pc = "loop" \/ calls # <<>>
    /\ args \in GoodArgs \cup SinkArgs

\* C2: with restart_interval = M > 0 and an RSTn after every M MCUs, each
\* MCU that follows a marker starts at the byte after the marker with an
\* empty register and zero DC predictors, and a reset that a marker causes
\* comes when all MCUs before the marker are decoded, so that it discards
\* no bit of theirs.
C2_RestartSync ==
    (/\ GoodCall
     /\ img.damage = "none"
     /\ img.restart_interval > 0)
    => /\ \A k \in 1..Len(trace.starts) :
            (k > 1 /\ (k - 1) % img.restart_interval = 0)
            => /\ trace.starts[k].pos = RstEnd(img, (k - 1) \div img.restart_interval)
               /\ trace.starts[k].bits = 0
               /\ trace.starts[k].dc_values = ZeroDc
       /\ \A e \in 1..Len(trace.resets) :
            trace.resets[e].cause = "marker"
            => trace.resets[e].decoded % img.restart_interval = 0

\* the rectangle of MCU k (0-based, raster order) of the image at scale 0
McuRect(im, k) ==
    LET w == mcu_width_of(im.sampling) * 8
        h == mcu_height_of(im.sampling) * 8
        x == (k % McuCols(im)) * w
        y == (k \div McuCols(im)) * h
    IN  Rectangle(x, Min({x + w, im.width}) - 1, y, Min({y + h, im.height}) - 1)

\* C5: a call at scale 0 with a continuing sink on a valid image returns Ok
\* and has called the sink once per MCU, in raster order.
C5_OncePerMcu ==
    \A i \in 1..Len(calls) :
        (/\ img.damage = "none"
         /\ calls[i].args \in GoodArgs
         /\ calls[i].args.scale = 0)
        => /\ calls[i].result = "Ok"
           /\ Len(calls[i].log) = McuCount(img)
           /\ \A k \in 1..Len(calls[i].log) :
                calls[i].log[k].rect = McuRect(img, k - 1)

\* the rectangle of MCU k (0-based, raster order) of the image at scale sc
ScaledRect(im, k, sc) ==
    LET r == McuRect(im, k)
        sw == Shr(rect_width(r), sc)
        sh == Shr(rect_height(r), sc)
    IN  Rectangle(Shr(r.left, sc), Shr(r.left, sc) + sw - 1,
                  Shr(r.top, sc), Shr(r.top, sc) + sh - 1)

\* MCU k has a pixel left at scale sc
NonEmpty(im, k, sc) ==
    /\ Shr(rect_width(McuRect(im, k)), sc) > 0
    /\ Shr(rect_height(McuRect(im, k)), sc) > 0

\* the rectangles of the first n MCUs that have a pixel left at scale sc
TilesOf(im, n, sc) ==
    LET ks == SelectSeq([k \in 1..n |-> k - 1], LAMBDA k : NonEmpty(im, k, sc))
    IN  [t \in 1..Len(ks) |-> ScaledRect(im, ks[t], sc)]

\* the rectangles a call has given to the sink
RectsOf(c) == [t \in 1..Len(c.log) |-> c.log[t].rect]

\* the sink of call c has stopped or failed: it was invoked the at-th time
SinkEnded(c) == c.args.sink.kind # "continue" /\ Len(c.log) >= c.args.sink.at

\* what C4 says of a finished call c, the MCUs that the sink has received
\* being those of `received`
AbortsAt(c, received) ==
    /\ (c.args.sink.kind = "stop" /\ SinkEnded(c))
       => /\ c.result = "Interrupted"
          /\ Len(c.log) = c.args.sink.at
    /\ (c.args.sink.kind = "error" /\ SinkEnded(c))
       => /\ c.result = SinkError
          /\ Len(c.log) = c.args.sink.at
          /\ RectsOf(c) = received
    /\ c.failed # ""
       => /\ c.result = c.failed
          /\ RectsOf(c) = received

C6_Repeatable ==
    \A i \in 1..Len(calls) : \A j \in 1..Len(calls) :
        (/\ i < j
         /\ calls[i].args \in GoodArgs
         /\ calls[j].args = calls[i].args)
        => /\ calls[j].log = calls[i].log
           /\ calls[j].result = calls[i].result

\* a second call with the arguments of the first, made with DC predictors
\* that the first call left non-zero, after which the sink has been given
\* two tiles again
C6_Witness ==
    /\ Len(calls) = 2
    /\ calls[1].args \in GoodArgs
    /\ calls[2].args = calls[1].args
    /\ calls[2].before.dc_values # ZeroDc
    /\ Len(calls[2].log) >= 2
    /\ calls[2].result = "Ok"

\* the width in pixels of an MCU of the decoder
McuPixelWidth == mcu_width_of(decoder.sampling) * 8

\* C7: at a scale s in 1..3, the pixel at (i, j) of a tile given to the
\* sink is the pixel at (i * 2^s, j * 2^s) of the tile that the same MCU
\* gives at scale 0.
C7_Decimated ==
    \A t \in 1..Len(sink_log) :
        args.scale \in 1..3
        => LET e == sink_log[t]
               rw == rect_width(e.rect)
               rw0 == rect_width(e.rect0)
               step == Pow2(args.scale)
           IN  \A i \in 0..(rw - 1) : \A j \in 0..(rect_height(e.rect) - 1) :
               \A c \in 1..Bpp(decoder) :
                   e.pixels[(j * rw + i) * Bpp(decoder) + c]
                   = e.pixels0[(j * step * rw0 + i * step) * Bpp(decoder) + c]

\* C8: at scale 0, row r of a tile given to the sink lies at the bytes
\* r * rect.width() * bpp and on, and holds the pixels of row r of the MCU
\* from its first column to column rect.width() - 1, whether the image has
\* three components or one and whether the tile is clipped or not.
C8_RowsCompacted ==
    \A t \in 1..Len(sink_log) :
        args.scale = 0
        => LET e == sink_log[t]
               rw == rect_width(e.rect)
           IN  \A r \in 0..(rect_height(e.rect) - 1) :
               \A n \in 1..(rw * Bpp(decoder)) :
                   e.pixels[r * rw * Bpp(decoder) + n]
                   = e.converted[r * McuPixelWidth * Bpp(decoder) + n]

\* the arguments of a call have a scale above 3, or a buffer that is short
ScaleTooLarge(a) == a.scale > 3
BufferTooShort(a) ==
    /\ a.scale <= 3
    /\ \/ a.mcu_len < mcu_buffer_size(decoder)
       \/ a.work_len < work_buffer_size(decoder)

\* C9: decompress with a scale above 3 returns Parameter, and with a scale
\* of at most 3 and a short mcu_buffer or work_buffer InsufficientMemory;
\* in both cases the sink is not invoked and the scale and DC predictors of
\* the decoder are what they were before the call.
C9_BadArgsRejected ==
    \A i \in 1..Len(calls) :
        LET c == calls[i] IN
        /\ ScaleTooLarge(c.args) => c.result = "Parameter"
        /\ BufferTooShort(c.args) => c.result = "InsufficientMemory"
        /\ (ScaleTooLarge(c.args) \/ BufferTooShort(c.args))
           => /\ c.log = <<>>
              /\ c.after = c.before

\* a call with bad arguments is rejected after a call that has left a scale
\* and DC predictors other than zero
C9_Witness ==
    /\ Len(calls) = 2
    /\ ScaleTooLarge(calls[2].args) \/ BufferTooShort(calls[2].args)
    /\ calls[2].before.scale > 0
    /\ calls[2].before.dc_values # ZeroDc
    /\ calls[2].after = calls[2].before

\* the sampling factor (H, V) of an image
FactorH(im) == IF im.sampling = "Yuv444" THEN 1 ELSE 2
FactorV(im) == IF im.sampling = "Yuv420" THEN 2 ELSE 1

\* C10 (as the code has it): mcu_buffer_size() is (H*V + 2) * 64, and
\* work_buffer_size() is H*8 * V*8 * 3 for a 3-component image and for a
\* grayscale image alike; decompress takes buffers of these sizes.
C10_BufferSizes ==
    /\ mcu_buffer_size(decoder) = (FactorH(img) * FactorV(img) + 2) * 64
    /\ work_buffer_size(decoder) = FactorH(img) * 8 * FactorV(img) * 8 * 3
    /\ \A i \in 1..Len(calls) :
         calls[i].result = "InsufficientMemory"
         <=> /\ calls[i].args.scale <= 3
             /\ \/ calls[i].args.mcu_len < (FactorH(img) * FactorV(img) + 2) * 64
                \/ calls[i].args.work_len < FactorH(img) * 8 * FactorV(img) * 8 * 3

\* C10 as stated: work_buffer_size() is H*8 * V*8 for a grayscale image
C10_SizeByFormat ==
    /\ mcu_buffer_size(decoder) = (FactorH(img) * FactorV(img) + 2) * 64
    /\ work_buffer_size(decoder) =
          FactorH(img) * 8 * FactorV(img) * 8
          * (IF img.num_components = 3 THEN 3 ELSE 1)

\* calls on a grayscale image with 16 by 16 MCUs: one with buffers of the
\* sizes 384 and 768 that was let in, then one with a work buffer of 767
\* bytes that was not
C10_Witness ==
    /\ img.num_components = 1
    /\ img.sampling = "Yuv420"
    /\ Len(calls) = 2
    /\ calls[1].args.mcu_len = 384 /\ calls[1].args.work_len = 768
    /\ calls[1].result = "Ok"
    /\ calls[2].args.work_len = 767
    /\ calls[2].result = "InsufficientMemory"


\* the arguments pass the checks at the head of decompress
ArgsAccepted(dec, a) ==
    /\ a.scale <= 3
    /\ a.mcu_len >= mcu_buffer_size(dec)
    /\ a.work_len >= work_buffer_size(dec)

\* the sink invocations in log have seen the raw size w x h shifted by s
SeenScaled(log, w, h, s) ==
    \A k \in 1..Len(log) :
        /\ log[k].width = Shr(w, s)
        /\ log[k].height = Shr(h, s)

\* C11: for every scale s in 0..3, on every sink invocation of a decompress
\* call at scale s whose arguments pass the checks, and after that call has
\* returned, width() = raw_width() >> s and height() = raw_height() >> s;
\* no decompress call changes raw_width() or raw_height().
C11_ScaledSize ==
    /\ pc = "loop"
       => SeenScaled(sink_log, raw_width(decoder), raw_height(decoder),
                     args.scale)
    /\ \A i \in 1..Len(calls) :
        LET c == calls[i] IN
        /\ c.raw_after = c.raw_before
        /\ ArgsAccepted(decoder, c.args)
           => /\ SeenScaled(c.log, c.raw_after[1], c.raw_after[2],
                            c.args.scale)
              /\ c.width = Shr(c.raw_after[1], c.args.scale)
              /\ c.height = Shr(c.raw_after[2], c.args.scale)

\* C11 as stated: after every decompress call with a scale s in 0..3,
\* width() = raw_width() >> s and height() = raw_height() >> s.
C11_EveryCall ==
    \A i \in 1..Len(calls) :
        LET c == calls[i] IN
        c.args.scale <= 3
        => /\ c.width = Shr(c.raw_after[1], c.args.scale)
           /\ c.height = Shr(c.raw_after[2], c.args.scale)

\* a call at scale 2 has given the sink a tile, and has returned, with the
\* size of the image divided by 4
C11_Witness ==
    /\ Len(calls) >= 1
    /\ calls[1].args.scale = 2
    /\ calls[1].result = "Ok"
    /\ Len(calls[1].log) >= 1
    /\ calls[1].log[1].width = Shr(raw_width(decoder), 2)
    /\ calls[1].width = Shr(raw_width(decoder), 2)
    /\ calls[1].width # raw_width(decoder)

----------------------------------------------------------------------------
(* MemoryPool (src/src/pool.rs).  The pool is the length of its buffer and *)
(* its offset.  A usize is kept as its two's-complement representative:    *)
(* n >= 0 stands for n and -k for usize::MAX + 1 - k, so that the values   *)
(* near 0 and near usize::MAX, their wrapping sums and differences and     *)
(* their unsigned order are exact for every width of usize.  A build with  *)
(* overflow checks ("debug") panics where the other ("release") wraps.     *)

\* a < b as usize
usize_lt(a, b) == IF (a < 0) = (b < 0) THEN a < b ELSE b < 0

\* a + b overflows usize
add_overflows(a, b) ==
    \/ a < 0 /\ b < 0
    \/ (a < 0) # (b < 0) /\ a + b >= 0

\* a - b overflows usize
sub_overflows(a, b) == usize_lt(a, b)

\* a * k overflows usize, k a small element size
mul_overflows(a, k) == a < 0 /\ k > 1

\* x & !(align - 1), align a power of two
align_down(x, align) == (x \div align) * align

\* MemoryPool::new
MemoryPoolNew(buffer_len) == [len |-> buffer_len, offset |-> 0]

\* MemoryPool::remaining, used, capacity and reset
remaining(pool) == pool.len - pool.offset
used(pool) == pool.offset
capacity(pool) == pool.len
reset(pool) == [pool EXCEPT !.offset = 0]

\* what an allocation call gives: Some(region), None or a panic
AllocSome(pool, start, count, elem) ==
    [kind |-> "Some", pool |-> pool,
     region |-> [start |-> start, count |-> count, elem |-> elem]]
AllocNone(pool) ==
    [kind |-> "None", pool |-> pool,
     region |-> [start |-> 0, count |-> 0, elem |-> 1]]
AllocPanic(pool) ==
    [kind |-> "panic", pool |-> pool,
     region |-> [start |-> 0, count |-> 0, elem |-> 1]]

\* MemoryPool::alloc_aligned, from the comparison with remaining on
alloc_take(pool, size, build, aligned_offset, aligned_size, remaining_len) ==
    IF usize_lt(remaining_len, aligned_size) THEN AllocNone(pool)
    ELSE IF build = "debug" /\ add_overflows(aligned_offset, aligned_size)
    THEN AllocPanic(pool)
    ELSE AllocSome([pool EXCEPT !.offset = aligned_offset + aligned_size],
                   aligned_offset, size, 1)

\* MemoryPool::alloc_aligned, from the aligned offset and size on
alloc_fit(pool, size, build, aligned_offset, aligned_size) ==
    IF build = "debug" /\ sub_overflows(pool.len, aligned_offset)
    THEN AllocPanic(pool)
    ELSE alloc_take(pool, size, build, aligned_offset, aligned_size,
                    pool.len - aligned_offset)

\* MemoryPool::alloc_aligned
alloc_aligned(pool, size, align, build) ==
    IF build = "debug"
       /\ (add_overflows(pool.offset, align - 1)
           \/ add_overflows(size, align - 1))
    THEN AllocPanic(pool)
    ELSE alloc_fit(pool, size, build,
                   align_down(pool.offset + (align - 1), align),
                   align_down(size + (align - 1), align))

\* MemoryPool::alloc
alloc(pool, size, build) == alloc_aligned(pool, size, 8, build)

\* MemoryPool::alloc_zeroed: the region of alloc, filled with zeroes
alloc_zeroed(pool, size, build) == alloc(pool, size, build)

\* MemoryPool::alloc_slice, from the byte slice on: count elements of
\* elem bytes at its start
slice_of(r, count, elem) ==
    IF r.kind = "Some"
    THEN AllocSome(r.pool, r.region.start, count, elem)
    ELSE r

\* MemoryPool::alloc_slice::<T>, elem = size_of::<T>()
alloc_slice(pool, count, elem, build) ==
    IF build = "debug" /\ mul_overflows(count, elem) THEN AllocPanic(pool)
    ELSE slice_of(alloc(pool, count * elem, build), count, elem)

\* MemoryPool::alloc_u8, alloc_u16, alloc_i32 and alloc_i16
alloc_u8(pool, count, build) == alloc_zeroed(pool, count, build)
alloc_u16(pool, count, build) == alloc_slice(pool, count, 2, build)
alloc_i32(pool, count, build) == alloc_slice(pool, count, 4, build)
alloc_i16(pool, count, build) == alloc_slice(pool, count, 2, build)

RECOMMENDED_POOL_SIZE == 10240
MINIMUM_POOL_SIZE == 4096

----------------------------------------------------------------------------
(* SpecPool: a pool over a buffer of some length, and calls of its         *)
(* allocation functions and of reset.  After a panic no call follows.      *)

MaxPoolCalls == 3

\* usize::MAX, as a representative
USIZE_MAX == -1

\* the lengths of the buffer, the sizes and counts asked for, the alignments
PoolLens == {0, 10, 16, 24}
AllocSizes == {0, 1, 8, 9, 17, USIZE_MAX - 8, USIZE_MAX - 6, USIZE_MAX}
AllocCounts == {0, 1, 3, 5, USIZE_MAX}
Aligns == {1, 2, 4, 8, 16}

MInit ==
    /\ m_pool \in {MemoryPoolNew(n) : n \in PoolLens}
    /\ m_build \in {"debug", "release"}
    /\ m_regions = <<>>
    /\ m_last = [n |-> 0, op |-> "new", size |-> 0, align |-> 1,
                 before |-> m_pool, kind |-> "", 
                 region |-> [start |-> 0, count |-> 0, elem |-> 1]]
    /\ TIdle /\ BIdle /\ DIdle /\ HIdle /\ KIdle /\ CIdle /\ RIdle
    /\ tick = 0

\* a call may follow
PoolReady == m_last.kind # "panic" /\ m_last.n < MaxPoolCalls

\* the call op(size, align) has given r
PoolCalled(op, size, align, r) ==
    /\ m_pool' = r.pool
    /\ m_regions' = IF r.kind = "Some" THEN Append(m_regions, r.region)
                    ELSE m_regions
    /\ m_last' = [n |-> m_last.n + 1, op |-> op, size |-> size,
                  align |-> align, before |-> m_pool, kind |-> r.kind,
                  region |-> r.region]
    /\ UNCHANGED <<m_build, tvars, bvars, dvars, hvars, kvars, cvars, rvars, tick>>

Alloc ==
    /\ PoolReady
    /\ \E size \in AllocSizes :
         PoolCalled("alloc", size, 8, alloc(m_pool, size, m_build))

AllocAligned ==
    /\ PoolReady
    /\ \E size \in AllocSizes, align \in Aligns :
         PoolCalled("alloc_aligned", size, align,
                    alloc_aligned(m_pool, size, align, m_build))

AllocZeroed ==
    /\ PoolReady
    /\ \E size \in AllocSizes :
         PoolCalled("alloc_zeroed", size, 8,
                    alloc_zeroed(m_pool, size, m_build))

AllocU8 ==
    /\ PoolReady
    /\ \E count \in AllocCounts :
         PoolCalled("alloc_u8", count, 8, alloc_u8(m_pool, count, m_build))

AllocU16 ==
    /\ PoolReady
    /\ \E count \in AllocCounts :
         PoolCalled("alloc_u16", count, 8, alloc_u16(m_pool, count, m_build))

AllocI32 ==
    /\ PoolReady
    /\ \E count \in AllocCounts :
         PoolCalled("alloc_i32", count, 8, alloc_i32(m_pool, count, m_build))

AllocI16 ==
    /\ PoolReady
    /\ \E count \in AllocCounts :
         PoolCalled("alloc_i16", count, 8, alloc_i16(m_pool, count, m_build))

Reset ==
    /\ PoolReady
    /\ m_pool' = reset(m_pool)
    /\ m_regions' = <<>>
    /\ m_last' = [n |-> m_last.n + 1, op |-> "reset", size |-> 0,
                  align |-> 1, before |-> m_pool, kind |-> "",
                  region |-> [start |-> 0, count |-> 0, elem |-> 1]]
    /\ UNCHANGED <<m_build, tvars, bvars, dvars, hvars, kvars, cvars, rvars, tick>>

MNext ==
    \/ Alloc
    \/ AllocAligned
    \/ AllocZeroed
    \/ AllocU8
    \/ AllocU16
    \/ AllocI32
    \/ AllocI16
    \/ Reset

SpecPool == MInit /\ [][MNext]_vars

\* n rounded up to the next multiple of 8 is more than what remains; for
\* n above usize::MAX - 7 the rounded size is above every usize
ShortOf(pool, n) ==
    \/ n < 0 /\ n > -8
    \/ usize_lt(remaining(pool), align_down(n + 7, 8))

\* C18: alloc(n) returns None exactly when remaining() < align8(n); on
\* success the region has exactly n bytes and used() has grown by
\* align8(n); on failure used() is unchanged.
C18_AllocExact ==
    m_last.op = "alloc"
    => /\ (m_last.kind = "None") = ShortOf(m_last.before, m_last.size)
       /\ m_last.kind = "None" => used(m_pool) = used(m_last.before)
       /\ m_last.kind # "None"
          => /\ m_last.kind = "Some"
             /\ m_last.region.count = m_last.size
             /\ m_last.region.elem = 1
             /\ used(m_pool) = used(m_last.before)
                               + align_down(m_last.size + 7, 8)

\* the region r lies in a buffer of len bytes
InBuffer(r, len) ==
    /\ r.start >= 0 /\ r.count >= 0
    /\ r.start + r.count * r.elem <= len

\* the regions r and q share no byte
Apart(r, q) ==
    \/ r.count = 0 \/ q.count = 0
    \/ r.start + r.count * r.elem <= q.start
    \/ q.start + q.count * q.elem <= r.start

\* C19: over allocation calls without a reset, used() never decreases,
\* used() <= capacity(), and every region returned lies inside the buffer
\* and overlaps no region returned before it.
C19_PoolSound ==
    /\ (m_last.n > 0 /\ m_last.op # "reset")
       => ~usize_lt(used(m_pool), used(m_last.before))
    /\ ~usize_lt(capacity(m_pool), used(m_pool))
    /\ \A i \in 1..Len(m_regions) :
        /\ InBuffer(m_regions[i], capacity(m_pool))
        /\ \A j \in 1..(i - 1) : Apart(m_regions[i], m_regions[j])

----------------------------------------------------------------------------
(* JpegDecoder::prepare and the segment parsers (src/src/decoder.rs).      *)
(* A parser works on st: the decoder, the pool, and as history the number  *)
(* of leading bytes of the input that have been read (hi), the offset of   *)
(* the segment the loop of prepare is at (at), the SOF0 segments met (sof) *)
(* and the table slots stored in this call, as sets (dqt, dht) and in the  *)
(* order of storing (loads).  base is the offset of the segment in the     *)
(* input.  A parser gives the result of the call, "Ok" or the error, and   *)
(* st.  An index beyond an array is the result "panic".                    *)

\* markers
SOI == 65496
SOF0 == 192
DHT == 196
DQT == 219
DRI == 221
SOS == 218
EOI == 217

\* JpegDecoder::new
JpegDecoderNew ==
    [width |-> 0, height |-> 0, num_components |-> 0, sampling |-> "Yuv444",
     huff_dc |-> [id \in 0..1 |-> <<>>],
     huff_ac |-> [id \in 0..1 |-> <<>>],
     qtables |-> [id \in 0..3 |-> <<>>],
     qtable_ids |-> [i \in 0..2 |-> 0],
     dc_values |-> [i \in 0..2 |-> 0],
     restart_interval |-> 0, scale |-> 0, sos_position |-> 0]

\* SamplingFactor::from_factor, None being ""
from_factor(h, v) ==
    CASE h = 1 /\ v = 1 -> "Yuv444"
      [] h = 2 /\ v = 1 -> "Yuv422"
      [] h = 2 /\ v = 2 -> "Yuv420"
      [] OTHER -> ""

\* u16::from_be_bytes
from_be_bytes(b0, b1) == b0 * 256 + b1

\* the bytes of the input up to offset n have been read
read_to(st, n) == [st EXCEPT !.hi = Max({st.hi, n})]

\* what a parser returns
Parsed(st, result) == [result |-> result, st |-> st]

\* st when a call is entered, hi bytes of the input having been read
Entered(dec, pool, hi) ==
    [dec |-> dec, pool |-> pool, hi |-> hi, at |-> 0, sof |-> <<>>,
     dqt |-> {}, dht |-> {}, loads |-> <<>>]

\* ---- parse_sof ----

RECURSIVE sof_components(_, _, _, _)

\* a parse_sof that takes every quantization table id
sof_qtable_any(st, data, base, i, qtable_id) ==
    sof_components([st EXCEPT !.dec.qtable_ids[i] = qtable_id],
                   data, base, i + 1)

\* parse_sof: the quantization table id of component i
sof_qtable(st, data, base, i, qtable_id) ==
    IF qtable_id > 3
    THEN Parsed([st EXCEPT !.dec.qtable_ids[i] = qtable_id], "FormatError")
    ELSE sof_components([st EXCEPT !.dec.qtable_ids[i] = qtable_id],
                        data, base, i + 1)

\* parse_sof: the sampling factor of component i
sof_sampling(st, data, base, i, sampling_factor, qtable_id) ==
    IF i = 0
    THEN IF from_factor(sampling_factor \div 16, sampling_factor % 16) = ""
         THEN Parsed(st, "UnsupportedFormat")
         ELSE sof_qtable([st EXCEPT !.dec.sampling =
                            from_factor(sampling_factor \div 16,
                                        sampling_factor % 16)],
                         data, base, i, qtable_id)
    ELSE IF sampling_factor # 17
    THEN Parsed(st, "UnsupportedFormat")
    ELSE sof_qtable(st, data, base, i, qtable_id)

\* parse_sof: the loop over the components, from component i on
sof_components(st, data, base, i) ==
    IF i >= st.dec.num_components
    THEN Parsed(st, "Ok")
    ELSE sof_sampling(read_to(st, base + 6 + i * 3 + 3), data, base, i,
                      data[6 + i * 3 + 1 + 1], data[6 + i * 3 + 2 + 1])

\* parse_sof: from the component count on
sof_count(st, data, base) ==
    IF st.dec.num_components # 1 /\ st.dec.num_components # 3
    THEN Parsed(st, "UnsupportedStandard")
    ELSE IF Len(data) < 6 + st.dec.num_components * 3
    THEN Parsed(st, "FormatError")
    ELSE sof_components(st, data, base, 0)

\* JpegDecoder::parse_sof
parse_sof(st, data, base) ==
    IF Len(data) < 6 THEN Parsed(st, "FormatError")
    ELSE IF data[1] # 8 THEN Parsed(read_to(st, base + 1), "UnsupportedFormat")
    ELSE sof_count(read_to([st EXCEPT
                              !.dec.height = from_be_bytes(data[2], data[3]),
                              !.dec.width = from_be_bytes(data[4], data[5]),
                              !.dec.num_components = data[6]],
                           base + 6),
                   data, base)

\* ---- parse_dht ----

\* size_of::<HuffmanTable>() on a 64-bit target: bits, the slices codes and
\* data, num_codes, and with fast-decode-2 lut and long_offset
HuffmanTableSize(tier) == IF tier = 2 THEN 80 ELSE 56

\* the pool after an allocation r of prepare, which is far from overflow
PoolAfter(st, r) == [st EXCEPT !.pool = r.pool]

RECURSIVE parse_dht_from(_, _, _, _, _)

\* parse_dht: the table is stored in its slot
dht_store(st, tier, data, base, off, class, id, tbl, r) ==
    IF r.kind # "Some" THEN Parsed(st, "InsufficientMemory")
    ELSE parse_dht_from(
           [PoolAfter(st, r) EXCEPT
              !.dec.huff_dc[id] = IF class = 0 THEN tbl ELSE @,
              !.dec.huff_ac[id] = IF class = 0 THEN @ ELSE tbl,
              !.dht = @ \cup {<<class, id>>},
              !.loads = Append(@, <<"dht", class, id>>)],
           tier, data, base, off + 17 + tbl.num_codes)

\* HuffmanTable::build_fast_lut: the allocation of the table
dht_lut(st, tier, data, base, off, class, id, tbl, r) ==
    IF r.kind # "Some" THEN Parsed(st, "InsufficientMemory")
    ELSE dht_store(PoolAfter(st, r), tier, data, base, off, class, id, tbl,
                   alloc(r.pool, HuffmanTableSize(tier), "debug"))

\* a create_in_pool that builds the lookup table in every tier
dht_data_lut(st, tier, data, base, off, class, id, tbl, r) ==
    IF r.kind # "Some" THEN Parsed(st, "InsufficientMemory")
    ELSE dht_lut(PoolAfter(st, r), tier, data, base, off, class, id, tbl,
                 alloc_u16(r.pool, HUFF_LEN, "debug"))

\* HuffmanTable::create_in_pool: the allocation of data
dht_data(st, tier, data, base, off, class, id, tbl, r) ==
    IF r.kind # "Some" THEN Parsed(st, "InsufficientMemory")
    ELSE IF tier = 2
    THEN dht_lut(PoolAfter(st, r), tier, data, base, off, class, id, tbl,
                 alloc_u16(r.pool, HUFF_LEN, "debug"))
    ELSE dht_store(PoolAfter(st, r), tier, data, base, off, class, id, tbl,
                   alloc(r.pool, HuffmanTableSize(tier), "debug"))

\* HuffmanTable::create_in_pool: the allocation of codes
dht_codes(st, tier, data, base, off, class, id, tbl, r) ==
    IF r.kind # "Some" THEN Parsed(st, "InsufficientMemory")
    ELSE dht_data(PoolAfter(st, r), tier, data, base, off, class, id, tbl,
                  alloc_u8(r.pool, tbl.num_codes, "debug"))

\* parse_dht: the call of create_in_pool
dht_create(st, tier, data, base, off, class, id, created) ==
    IF ~created.ok THEN Parsed(st, created.err)
    ELSE dht_codes(st, tier, data, base, off, class, id, created.tbl,
                   alloc_u16(st.pool, created.tbl.num_codes, "debug"))

\* parse_dht: from the code counts on
dht_table(st, tier, data, base, off, class, id, bits) ==
    IF Len(data) - off < 17 + SumBits(bits, 1, 16)
    THEN Parsed(st, "FormatError")
    ELSE dht_create(read_to(st, base + off + 17 + SumBits(bits, 1, 16)),
                    tier, data, base, off, class, id,
                    create_in_pool(bits,
                                   SubSeq(data, off + 18,
                                          off + 17 + SumBits(bits, 1, 16))))

\* parse_dht: from table_info on
dht_info(st, tier, data, base, off, table_info) ==
    IF table_info % 16 > 1 THEN Parsed(st, "FormatError")
    ELSE dht_table(read_to(st, base + off + 17), tier, data, base, off,
                   (table_info \div 16) % 2, table_info % 16,
                   SubSeq(data, off + 2, off + 17))

\* JpegDecoder::parse_dht, from offset off of the segment on
parse_dht_from(st, tier, data, base, off) ==
    IF off >= Len(data) THEN Parsed(st, "Ok")
    ELSE IF Len(data) - off < 17 THEN Parsed(st, "FormatError")
    ELSE dht_info(read_to(st, base + off + 1), tier, data, base, off,
                  data[off + 1])

\* JpegDecoder::parse_dht
parse_dht(st, tier, data, base) == parse_dht_from(st, tier, data, base, 0)

\* ---- parse_dqt ----

\* the zigzag position of the raster index zi
ZigzagPos(zi) == CHOOSE i \in 0..63 : ZIGZAG[i + 1] = zi

\* parse_dqt: the quantizer at zigzag position i, of 8 or of 16 bits
dqt_value(data, off, precision, i) ==
    IF precision = 0 THEN data[off + 1 + i + 1]
    ELSE from_be_bytes(data[off + 1 + i * 2 + 1], data[off + 2 + i * 2 + 1])

\* a table whose entries are scaled by the factor at their zigzag position
RECURSIVE dqt_entries_by_position(_, _, _, _)
dqt_entries_by_position(data, off, precision, zi) ==
    IF zi > 63 THEN <<>>
    ELSE <<dqt_value(data, off, precision, ZigzagPos(zi))
           * ARAI_SCALE_FACTOR[ZigzagPos(zi) + 1]>>
         \o dqt_entries_by_position(data, off, precision, zi + 1)

\* parse_dqt: the entries of the table from raster index zi on
RECURSIVE dqt_entries(_, _, _, _)
dqt_entries(data, off, precision, zi) ==
    IF zi > 63 THEN <<>>
    ELSE <<dqt_value(data, off, precision, ZigzagPos(zi))
           * ARAI_SCALE_FACTOR[zi + 1]>>
         \o dqt_entries(data, off, precision, zi + 1)

RECURSIVE parse_dqt_from(_, _, _, _)

\* parse_dqt: the table is filled and stored in its slot
dqt_fill(st, data, base, off, precision, id, sub_len) ==
    IF Len(data) - off < sub_len THEN Parsed(st, "FormatError")
    ELSE parse_dqt_from(
           [read_to(st, base + off + sub_len) EXCEPT
              !.dec.qtables[id] = dqt_entries(data, off, precision, 0),
              !.dqt = @ \cup {id},
              !.loads = Append(@, <<"dqt", id>>)],
           data, base, off + sub_len)

\* parse_dqt: the allocation of the table
dqt_alloc(st, data, base, off, precision, id, r) ==
    IF r.kind # "Some" THEN Parsed(st, "InsufficientMemory")
    ELSE dqt_fill(PoolAfter(st, r), data, base, off, precision, id,
                  IF precision = 0 THEN 65 ELSE 129)

\* parse_dqt: from table_info on
dqt_info(st, data, base, off, table_info) ==
    IF table_info % 16 > 3 THEN Parsed(st, "FormatError")
    ELSE dqt_alloc(st, data, base, off, (table_info \div 16) % 16,
                   table_info % 16, alloc(st.pool, 64 * 4, "debug"))

\* JpegDecoder::parse_dqt, from offset off of the segment on
parse_dqt_from(st, data, base, off) ==
    IF off >= Len(data) THEN Parsed(st, "Ok")
    ELSE dqt_info(read_to(st, base + off + 1), data, base, off, data[off + 1])

\* JpegDecoder::parse_dqt
parse_dqt(st, data, base) == parse_dqt_from(st, data, base, 0)

\* ---- parse_dri, parse_sos ----

\* JpegDecoder::parse_dri
parse_dri(st, data, base) ==
    IF Len(data) < 2 THEN Parsed(st, "FormatError")
    ELSE Parsed([read_to(st, base + 2) EXCEPT
                   !.dec.restart_interval = from_be_bytes(data[1], data[2])],
                "Ok")

\* parse_sos: the loop over the components, from component i on
RECURSIVE sos_components(_, _)
sos_components(st, i) ==
    IF i >= st.dec.num_components THEN Parsed(st, "Ok")
    ELSE IF is_null(st.dec.huff_dc[table_id_of(i)])
            \/ is_null(st.dec.huff_ac[table_id_of(i)])
    THEN Parsed(st, "FormatError")
    ELSE IF st.dec.qtable_ids[i] > 3 THEN Parsed(st, "panic")
    ELSE IF is_null(st.dec.qtables[st.dec.qtable_ids[i]])
    THEN Parsed(st, "FormatError")
    ELSE sos_components(st, i + 1)

\* JpegDecoder::parse_sos
parse_sos(st, data, base) ==
    IF Len(data) = 0 THEN Parsed(st, "FormatError")
    ELSE IF data[1] # st.dec.num_components
    THEN Parsed(read_to(st, base + 1), "FormatError")
    ELSE sos_components(read_to(st, base + 1), 0)

\* ---- prepare ----

RECURSIVE prepare_loop(_, _, _, _)

\* prepare: after the parser of a segment that is not SOS has returned r
prepare_next(r, tier, data, next) ==
    IF r.result # "Ok" THEN r ELSE prepare_loop(r.st, tier, data, next)

\* prepare: after parse_sos has returned r for the segment at pos
prepare_sos(r, pos) ==
    IF r.result # "Ok" THEN r
    ELSE Parsed([r.st EXCEPT !.dec.sos_position = pos], "Ok")

\* history: parse_sof has returned r for the segment
sof_noted(r, segment) ==
    [r EXCEPT !.st.sof = Append(@, [segment |-> segment,
                                    result |-> r.result,
                                    width |-> r.st.dec.width,
                                    height |-> r.st.dec.height,
                                    n |-> r.st.dec.num_components])]

\* prepare: the match on the marker of the segment at pos
prepare_match(st, tier, data, pos, m, segment) ==
    CASE m = SOF0 ->
           prepare_next(sof_noted(parse_sof(st, segment, pos + 4), segment),
                        tier, data, pos + 4 + Len(segment))
      [] m = DHT ->
           prepare_next(parse_dht(st, tier, segment, pos + 4), tier, data,
                        pos + 4 + Len(segment))
      [] m = DQT ->
           prepare_next(parse_dqt(st, segment, pos + 4), tier, data,
                        pos + 4 + Len(segment))
      [] m = DRI ->
           prepare_next(parse_dri(st, segment, pos + 4), tier, data,
                        pos + 4 + Len(segment))
      [] m = SOS -> prepare_sos(parse_sos(st, segment, pos + 4), pos)
      [] m = EOI -> Parsed(st, "FormatError")
      [] m >= 192 /\ m <= 207 /\ m # SOF0 /\ m # DHT ->
           Parsed(st, "UnsupportedStandard")
      [] OTHER -> prepare_loop(st, tier, data, pos + 4 + Len(segment))

\* a prepare for which a segment that runs beyond the input is malformed
prepare_segment_whole(st, tier, data, pos, marker, length) ==
    IF length < 2 \/ marker \div 256 # 255 THEN Parsed(st, "FormatError")
    ELSE IF pos + 4 + (length - 2) > Len(data)
    THEN Parsed(st, "FormatError")
    ELSE prepare_match(st, tier, data, pos, marker % 256,
                       SubSeq(data, pos + 5, pos + 4 + (length - 2)))

\* prepare: from the marker and the length of the segment at pos on
prepare_segment(st, tier, data, pos, marker, length) ==
    IF length < 2 \/ marker \div 256 # 255 THEN Parsed(st, "FormatError")
    ELSE IF pos + 4 + (length - 2) > Len(data) THEN Parsed(st, "Input")
    ELSE prepare_match(st, tier, data, pos, marker % 256,
                       SubSeq(data, pos + 5, pos + 4 + (length - 2)))

\* prepare: the loop over the segments, from offset pos on
prepare_loop(st, tier, data, pos) ==
    IF pos + 4 > Len(data) THEN Parsed([st EXCEPT !.at = pos], "Input")
    ELSE prepare_segment(read_to([st EXCEPT !.at = pos], pos + 4),
                         tier, data, pos,
                         from_be_bytes(data[pos + 1], data[pos + 2]),
                         from_be_bytes(data[pos + 3], data[pos + 4]))

\* a prepare that does not look for SOI
prepare_any_start(dec, pool, tier, data) ==
    prepare_loop(Entered(dec, pool, 0), tier, data, 2)

\* JpegDecoder::prepare on the decoder dec with the pool, in the build of
\* the decode tier
prepare(dec, pool, tier, data) ==
    IF Len(data) < 2
    THEN Parsed(Entered(dec, pool, 0), "Input")
    ELSE IF from_be_bytes(data[1], data[2]) # SOI
    THEN Parsed(Entered(dec, pool, 2), "FormatError")
    ELSE prepare_loop(Entered(dec, pool, 2), tier, data, 2)

----------------------------------------------------------------------------
(* SpecPrepare: a new decoder and a new pool, and prepare calls on them.   *)
(* The first call is given any of the inputs, a later call on the same     *)
(* decoder one of a few.                                                   *)

MaxPrepares == 2

\* a segment with the marker 0xFF m
Seg(m, payload) ==
    <<255, m, (Len(payload) + 2) \div 256, (Len(payload) + 2) % 256>>
    \o payload

\* the images whose files are prepared
GrayImage == ImageOf(1, "Yuv444", 1, FALSE, 1, FALSE, 2, <<Flat>>, "none")
ColourImage == ImageOf(3, "Yuv420", 2, TRUE, 1, FALSE, 0, <<Flat>>, "none")
PrepImages ==
    {GrayImage, ColourImage,
     ImageOf(3, "Yuv422", 1, FALSE, 2, TRUE, 0, <<Flat>>, "none"),
     ImageOf(1, "Yuv420", 1, FALSE, 1, FALSE, 0, <<Flat>>, "none")}

\* a well-formed header: the file up to the end of its SOS segment
HeaderOf(im) == HeaderBytes(im) \o SosBytes(im)
WellFormed == {HeaderOf(GrayImage), HeaderOf(ColourImage)}

\* the proper prefixes of a sequence
ProperPrefixes(s) == {SubSeq(s, 1, n) : n \in 0..(Len(s) - 1)}

\* the tables of a file, all slots that a scan can name
AllTables ==
    DqtBytes(0, Quantizers[1]) \o DqtBytes(1, Quantizers[2])
    \o DhtBytes(0, 0, DcTable) \o DhtBytes(1, 0, AcTable)
    \o DhtBytes(0, 1, DcTable) \o DhtBytes(1, 1, AcTable)

\* the payload of a SOF segment for up to three components: precision,
\* component count n, the sampling bytes s and the table ids q
SofPayload(precision, n, s, q) ==
    <<precision, 0, 16, 0, 16, n>>
    \o (IF n >= 1 THEN <<1, s[1], q[1]>> ELSE <<>>)
    \o (IF n >= 2 THEN <<2, s[2], q[2]>> ELSE <<>>)
    \o (IF n >= 3 THEN <<3, s[3], q[3]>> ELSE <<>>)

\* SOF payloads, sound and unsound in one or in several places, whole and
\* cut short
SofPayloads ==
    {SofPayload(p, n, <<s1, s2, 17>>, <<q1, 1, q3>>) :
        p \in {8, 12}, n \in {1, 2, 3},
        s1 \in {34, 18}, s2 \in {17, 33}, q1 \in {0, 4}, q3 \in {1, 4}}
    \cup {SofPayload(8, n, <<s1, 17, 17>>, <<0, 1, 1>>) :
            n \in {0, 1, 3, 4}, s1 \in {17, 33, 34, 65, 0}}
    \cup {SubSeq(SofPayload(p, 3, <<34, 17, 17>>, <<0, 1, 1>>), 1, n) :
            p \in {8, 12}, n \in {0, 5, 6, 14}}
    \cup {SubSeq(SofPayload(8, 3, <<18, 17, 17>>, <<4, 1, 1>>), 1, 8)}

\* a scan header for n components
SosOf(n) ==
    SosBytes(IF n = 3 THEN ColourImage ELSE GrayImage)

\* the component count of a SOF payload, 1 if it has none
CountOf(payload) == IF Len(payload) >= 6 THEN payload[6] ELSE 1

\* files with each SOF payload
SofInputs ==
    {SoiBytes \o AllTables \o Seg(SOF0, p) \o SosOf(CountOf(p)) :
        p \in SofPayloads}

\* inputs that are short or do not start with SOI
MagicInputs ==
    { <<>>, <<255>>, <<216>>, <<0>>, <<255, 0, 1, 2>>, <<255, 216>>,
      <<0, 0>>, <<216, 255>>, <<255, 217>>, <<255, 216, 255>>,
      <<255, 192, 0, 11>>, Tail(HeaderOf(GrayImage)) }

\* inputs with EOI after SOI, alone and with bytes after it
EoiInputs ==
    {SoiBytes \o <<255, 217>> \o rest :
        rest \in { <<>>, <<0>>, <<0, 2>>, <<0, 16>>, <<0, 2, 1, 2>>,
                   <<0, 0>>, <<0, 1>>, <<255, 217>>, <<0, 3, 7>>,
                   SosBytes(GrayImage) }}
    \cup {SoiBytes \o AllTables \o SofBytes(GrayImage) \o <<255, 217>> \o rest :
            rest \in { <<>>, <<0, 2>>, <<0, 16>> }}

\* inputs that lack a segment
LackingInputs ==
    { SoiBytes \o Seg(SOS, <<0>>),
      SoiBytes \o AllTables \o Seg(SOS, <<0>>),
      SoiBytes \o SosBytes(GrayImage),
      SoiBytes \o SofBytes(GrayImage) \o SosBytes(GrayImage),
      SoiBytes \o SofBytes(ColourImage) \o SosBytes(ColourImage),
      SoiBytes \o AllTables \o SosBytes(GrayImage),
      SoiBytes \o DqtBytes(0, 16) \o SofBytes(GrayImage) \o SosBytes(GrayImage),
      SoiBytes \o DhtBytes(0, 0, DcTable) \o DhtBytes(1, 0, AcTable)
        \o SofBytes(GrayImage) \o SosBytes(GrayImage),
      SoiBytes \o DqtBytes(0, 16) \o DhtBytes(0, 0, DcTable)
        \o DhtBytes(1, 0, AcTable) \o SofBytes(ColourImage)
        \o SosBytes(ColourImage),
      SoiBytes \o AllTables \o SofBytes(ColourImage) \o SosBytes(GrayImage),
      SoiBytes \o AllTables \o SofBytes(GrayImage) \o Seg(SOS, <<>>) }

\* code counts per length, given for the lengths 1, 2 and 16
CountsOf(n1, n2, n16) ==
    <<n1, n2, 0, 0, 0, 0, 0, 0, 0, 0, 0, 0, 0, 0, 0, n16>>

\* the payload of a DHT table with the symbols 0 .. n - 1
DhtPayload(info, bits) ==
    <<info>> \o bits \o [i \in 1..SumBits(bits, 1, 16) |-> i - 1]

\* DHT payloads: code counts that are and are not those of a prefix code,
\* two tables in one segment, a table id above 1, tables cut short
DhtPayloads ==
    {DhtPayload(info, CountsOf(n1, n2, n16)) :
        info \in {0, 16}, n1 \in 0..3, n2 \in {0, 1}, n16 \in {0, 1}}
    \cup { DhtPayload(0, CountsOf(1, 1, 1)) \o DhtPayload(16, CountsOf(0, 3, 0)),
           DhtPayload(2, CountsOf(1, 1, 0)),
           DhtPayload(1, CountsOf(1, 1, 0)),
           SubSeq(DhtPayload(0, CountsOf(1, 1, 0)), 1, 16),
           SubSeq(DhtPayload(0, CountsOf(1, 1, 0)), 1, 18),
           DhtPayload(0, CountsOf(1, 1, 0)) \o <<16>> }

\* files with each DHT payload before the tables of a grayscale file
DhtInputs ==
    {SoiBytes \o Seg(DHT, p) \o DqtBytes(0, 16)
       \o DhtBytes(1, 0, AcTable) \o SofBytes(GrayImage) \o SosBytes(GrayImage) :
        p \in DhtPayloads}

\* the payload of a DQT table of 16-bit quantizers q
WideDqt(id, q) == <<16 + id>> \o [i \in 1..128 |-> IF i % 2 = 1 THEN q \div 256 ELSE q % 256]

\* DQT, DRI and other segments, sound and unsound
OtherSegments ==
    { Seg(DQT, WideDqt(0, 300)),
      Seg(DQT, WideDqt(1, 65535)),
      Seg(DQT, SubSeq(WideDqt(0, 300), 1, 128)),
      Seg(DQT, <<4>> \o [i \in 1..64 |-> 1]),
      Seg(DQT, <<3>> \o [i \in 1..64 |-> 255]),
      Seg(DQT, <<0>> \o [i \in 1..63 |-> 1]),
      Seg(DQT, <<0>> \o [i \in 1..64 |-> 2] \o <<1>> \o [i \in 1..64 |-> 3]),
      Seg(DQT, <<>>),
      Seg(DHT, <<>>),
      Seg(DRI, <<0>>),
      Seg(DRI, <<1, 0>>),
      Seg(DRI, <<>>),
      Seg(224, <<74, 70, 73, 70, 0>>),
      Seg(254, <<>>),
      Seg(194, SofPayload(8, 1, <<17, 17, 17>>, <<0, 0, 0>>)),
      Seg(193, <<>>),
      Seg(207, <<>>),
      Seg(208, <<>>),
      Seg(0, <<>>),
      <<255, 219, 0, 1>>,
      <<255, 219, 0, 0>>,
      <<0, 219, 0, 4, 0, 0>>,
      <<254, 224, 0, 2>>,
      <<255, 254, 255, 255>> }

\* files with each of them before the segments of a grayscale file
OtherInputs ==
    {SoiBytes \o g \o Tail(Tail(HeaderOf(GrayImage))) : g \in OtherSegments}

\* the inputs of prepare
\* code counts of tables of 256 symbols (255 codes of 8 bits, one of 9),
\* and of 12 and 162 symbols, the sizes of the tables of Annex K
FullBits == [i \in 1..16 |-> IF i = 8 THEN 255 ELSE IF i = 9 THEN 1 ELSE 0]
TypicalDcBits == <<0, 1, 5, 1, 1, 1, 1, 1, 1, 0, 0, 0, 0, 0, 0, 0>>
TypicalAcBits == <<0, 2, 1, 3, 3, 2, 4, 3, 5, 5, 4, 4, 0, 0, 1, 125>>

\* the header of the colour file with the quantization slots 0..nq-1 and
\* the four Huffman slots defined once each
FullHeader(nq, dc_bits, ac_bits) ==
    SoiBytes
    \o DqtBytes(0, 16) \o DqtBytes(1, 8)
    \o (IF nq > 2 THEN DqtBytes(2, 4) \o DqtBytes(3, 2) ELSE <<>>)
    \o Seg(DHT, DhtPayload(0, dc_bits)) \o Seg(DHT, DhtPayload(16, ac_bits))
    \o Seg(DHT, DhtPayload(1, dc_bits)) \o Seg(DHT, DhtPayload(17, ac_bits))
    \o SofBytes(ColourImage) \o SosBytes(ColourImage)

\* headers that fill every slot
FullInputs ==
    { FullHeader(4, FullBits, FullBits),
      FullHeader(4, TypicalDcBits, TypicalAcBits),
      FullHeader(2, TypicalDcBits, TypicalAcBits) }

PInputs ==
    {FileOf(im) : im \in PrepImages}
    \cup UNION {ProperPrefixes(h) : h \in WellFormed}
    \cup SofInputs \cup MagicInputs \cup EoiInputs \cup LackingInputs
    \cup DhtInputs \cup OtherInputs \cup FullInputs

\* the inputs of a call on a decoder that has been prepared before
ReuseInputs ==
    { FileOf(GrayImage),
      FileOf(ColourImage),
      SoiBytes \o Seg(SOS, <<0>>),
      SoiBytes \o SosBytes(GrayImage),
      SoiBytes \o SofBytes(ColourImage) \o SosBytes(ColourImage),
      SoiBytes \o DhtBytes(0, 0, DcTable) \o DhtBytes(1, 0, AcTable)
        \o SofBytes(GrayImage) \o SosBytes(GrayImage),
      SubSeq(HeaderOf(GrayImage), 1, Len(HeaderOf(GrayImage)) - 1),
      SoiBytes \o <<255, 217, 0, 2>> }

\* the lengths of the pool's buffer
PreparePools == {MINIMUM_POOL_SIZE, RECOMMENDED_POOL_SIZE}

HInit ==
    /\ h_dec = JpegDecoderNew
    /\ h_pool \in {MemoryPoolNew(n) : n \in PreparePools}
    /\ h_tier \in 0..2
    /\ h_last = [data |-> <<>>, result |-> "", dec |-> JpegDecoderNew,
                 pool |-> h_pool, hi |-> 0, at |-> 0, sof |-> <<>>,
                 dqt |-> {}, dht |-> {}, loads |-> <<>>]
    /\ h_n = 0
    /\ TIdle /\ BIdle /\ DIdle /\ MIdle /\ KIdle /\ CIdle /\ RIdle
    /\ tick = 0

\* a call of prepare: h_last keeps the input, the decoder and the pool
\* before the call, and what the call did
Prepare ==
    /\ h_n < MaxPrepares
    /\ h_last.result # "panic"
    /\ \E data \in (IF h_n = 0 THEN PInputs ELSE ReuseInputs) :
       \E r \in {prepare(h_dec, h_pool, h_tier, data)} :
         /\ h_dec' = r.st.dec
         /\ h_pool' = r.st.pool
         /\ h_last' = [data |-> data, result |-> r.result, dec |-> h_dec,
                       pool |-> h_pool, hi |-> r.st.hi, at |-> r.st.at,
                       sof |-> r.st.sof, dqt |-> r.st.dqt,
                       dht |-> r.st.dht, loads |-> r.st.loads]
         /\ h_n' = h_n + 1
    /\ UNCHANGED <<h_tier, tvars, bvars, dvars, mvars, kvars, cvars, rvars, tick>>

HNext == Prepare

SpecPrepare == HInit /\ [][HNext]_vars

----------------------------------------------------------------------------
(* Claims on prepare.                                                      *)

\* a call of prepare has returned
Prepared == h_n > 0 /\ h_last.result # "panic"

\* the SOF0 segments of the last call that parse_sof has accepted
FramesParsed == SelectSeq(h_last.sof, LAMBDA e : e.result = "Ok")

\* C12: when prepare returns Ok, a SOF0 segment was parsed before the SOS,
\* raw_width() and raw_height() are the width and height that this SOF0
\* gives, and components() is 1 or 3.
C12_FrameParsed ==
    (Prepared /\ h_last.result = "Ok")
    => /\ FramesParsed # <<>>
       /\ LET sof == FramesParsed[Len(FramesParsed)].segment IN
          /\ raw_height(h_dec) = from_be_bytes(sof[2], sof[3])
          /\ raw_width(h_dec) = from_be_bytes(sof[4], sof[5])
       /\ components(h_dec) \in {1, 3}

\* C13: when prepare returns Ok, for every component i < components() the
\* quantization slot qtable_ids[i] and the Huffman slots DC and AC of table
\* 0 (i = 0) or 1 (i > 0) have been stored by a DQT / DHT segment of this
\* input.
C13_SlotsFromInput ==
    (Prepared /\ h_last.result = "Ok")
    => \A i \in 0..(components(h_dec) - 1) :
         /\ h_dec.qtable_ids[i] \in h_last.dqt
         /\ <<0, table_id_of(i)>> \in h_last.dht
         /\ <<1, table_id_of(i)>> \in h_last.dht

\* the checks of the components of a SOF0 payload that fail, in the order
\* of the segment: 2i for the sampling byte of component i, 2i + 1 for its
\* quantization table id
SofDefects(sof) ==
    {k \in 0..(2 * sof[6] - 1) :
        LET c == k \div 2 IN
        IF k % 2 = 1 THEN sof[6 + c * 3 + 3] > 3
        ELSE IF c = 0 THEN sof[6 + 2] \notin {17, 33, 34}
        ELSE sof[6 + c * 3 + 2] # 17}

\* what prepare returns on a SOF0 payload: the error of the first check
\* that fails
SofVerdict(sof) ==
    IF Len(sof) < 6 THEN "FormatError"
    ELSE IF sof[1] # 8 THEN "UnsupportedFormat"
    ELSE IF sof[6] \notin {1, 3} THEN "UnsupportedStandard"
    ELSE IF Len(sof) < 6 + 3 * sof[6] THEN "FormatError"
    ELSE IF SofDefects(sof) = {} THEN "Ok"
    ELSE IF Min(SofDefects(sof)) % 2 = 0 THEN "UnsupportedFormat"
    ELSE "FormatError"

\* C14: when prepare meets a SOF0 segment, it returns the error of the
\* first of these that holds, in this order: a payload of less than 6
\* bytes, FormatError; a precision other than 8, UnsupportedFormat; a
\* component count other than 1 or 3, UnsupportedStandard; a payload of
\* less than 6 + 3n bytes, FormatError; then component by component, a
\* sampling byte outside {0x11, 0x21, 0x22} for the first and other than
\* 0x11 for a later component, UnsupportedFormat, and a quantization table
\* id above 3, FormatError.
C14_SofErrors ==
    Prepared
    => \A k \in 1..Len(h_last.sof) :
         /\ h_last.sof[k].result = SofVerdict(h_last.sof[k].segment)
         /\ h_last.sof[k].result # "Ok"
            => k = Len(h_last.sof) /\ h_last.result = h_last.sof[k].result

\* C14 as stated: each defect of a SOF0 segment yields its error.
C14_EachDefect ==
    Prepared
    => \A k \in 1..Len(h_last.sof) :
         LET sof == h_last.sof[k].segment
             n == IF Len(sof) >= 6 THEN (Len(sof) - 6) \div 3 ELSE 0
         IN
         /\ (Len(sof) >= 1 /\ sof[1] # 8)
            => h_last.result = "UnsupportedFormat"
         /\ (Len(sof) >= 6 /\ sof[6] \notin {1, 3})
            => h_last.result = "UnsupportedStandard"
         /\ (n >= 1 /\ sof[6 + 2] \notin {17, 33, 34})
            => h_last.result = "UnsupportedFormat"
         /\ (\E c \in 1..(n - 1) : c < sof[6] /\ sof[6 + c * 3 + 2] # 17)
            => h_last.result = "UnsupportedFormat"
         /\ (\E c \in 0..(n - 1) : c < sof[6] /\ sof[6 + c * 3 + 3] > 3)
            => h_last.result = "FormatError"

\* prepare has returned FormatError for a SOF0 segment sound but for the
\* quantization table id 4 of its third component
C14_Witness ==
    /\ Prepared
    /\ Len(h_last.sof) = 1
    /\ h_last.sof[1].segment = SofPayload(8, 3, <<34, 17, 17>>, <<0, 1, 4>>)
    /\ h_last.result = "FormatError"
    /\ h_dec.qtable_ids[2] = 4

\* C15: prepare on an input of less than 2 bytes returns Input, and on an
\* input of at least 2 bytes that does not start with 0xFF 0xD8
\* FormatError.
C15_ShortOrNoSoi ==
    Prepared
    => /\ Len(h_last.data) < 2 => h_last.result = "Input"
       /\ (Len(h_last.data) >= 2
           /\ (h_last.data[1] # 255 \/ h_last.data[2] # 216))
          => h_last.result = "FormatError"

\* prepare has returned FormatError for the input FF 00 01 02
C15_Witness ==
    /\ Prepared
    /\ h_last.data = <<255, 0, 1, 2>>
    /\ h_last.result = "FormatError"
    /\ h_last.hi = 2

\* the loop of prepare has ended at a segment whose marker is EOI
EndedAtEoi ==
    /\ Len(h_last.data) >= 2
    /\ h_last.data[1] = 255 /\ h_last.data[2] = 216
    /\ h_last.at >= 2
    /\ Len(h_last.data) >= h_last.at + 2
    /\ h_last.data[h_last.at + 1] = 255
    /\ h_last.data[h_last.at + 2] = EOI

\* C16: if the marker that prepare meets after SOI and before an SOS is
\* EOI, prepare returns FormatError, whatever follows the EOI.
C16_EoiFormatError ==
    (Prepared /\ EndedAtEoi) => h_last.result = "FormatError"

\* the header of which the input of the last call is a proper prefix, if
\* there is one, and else the input
HeaderCut ==
    IF \E h \in WellFormed : h_last.data \in ProperPrefixes(h)
    THEN CHOOSE h \in WellFormed : h_last.data \in ProperPrefixes(h)
    ELSE h_last.data

StoredTables ==
    {h_dec.huff_dc[x[2]] : x \in {y \in h_last.dht : y[1] = 0}}
    \cup {h_dec.huff_ac[x[2]] : x \in {y \in h_last.dht : y[1] = 1}}

\* C20: in every Huffman table that prepare stores from a DHT segment,
\* codes[] holds bits[L] codes for each length L in construction order,
\* every code fits in the L bits of its length, and the codes are pairwise
\* distinct.
C20_CanonicalCodes ==
    Prepared
    => \A tbl \in StoredTables :
         /\ Len(tbl.codes) = SumBits(tbl.bits, 1, 16)
         /\ \A i \in 1..Len(tbl.codes) :
              tbl.codes[i] < Pow2(LenOfIdx(tbl.bits, i - 1, 1))
         /\ \A i, j \in 1..Len(tbl.codes) :
              i # j => tbl.codes[i] # tbl.codes[j]

\* C21: HuffmanTable::create_in_pool returns a table only when the total code
\* count n is greater than 0 and values.len() == n: every table that prepare
\* stores from a DHT segment has num_codes > 0 and as many symbols as codes.
C21_CreateChecks ==
    Prepared => \A t \in StoredTables :
                    t.num_codes > 0 /\ Len(t.data) = t.num_codes

----------------------------------------------------------------------------
(* SpecKernels: byte_clip, ycbcr_to_rgb, block_idct, parse_dqt and          *)
(* decode_and_dequantize_block, each applied once to one input.  k_out is  *)
(* <<>> before the call and holds the result after it.                     *)

MaxClip == 511

\* byte_clip is given every value of -512..=511
ClipInputs == {[op |-> "byte_clip", val |-> v] : v \in (-(MaxClip + 1))..MaxClip}

\* the samples of one pixel, as mcu_to_rgb reads them from the MCU buffer,
\* in the build with and in the build without table-clip
Lumas == {-20, 0, 1, 64, 128, 200, 255, 300}
Chromas == {0, 1, 64, 127, 128, 129, 200, 255}
ColourInputs ==
    {[op |-> "ycbcr_to_rgb", build |-> b, y |-> y, cb |-> cb, cr |-> cr] :
        b \in {"", "table-clip"}, y \in Lumas, cb \in Chromas, cr \in Chromas}

\* de-quantized blocks: a DC term alone, and a DC term with one AC term
DcOnly(d) == [j \in 1..64 |-> IF j = 1 THEN d ELSE 0]
DcTerms ==
    {k * 997 : k \in (-20)..20}
    \cup {-8421377, -8421376, -32769, -32768, -257, -256, -1, 1, 255, 256,
          65536, 261120, 8355839, 8355840, 8388607, -8388608}
IdctInputs ==
    {[op |-> "block_idct", src |-> DcOnly(d)] : d \in DcTerms}
    \cup {[op |-> "block_idct", src |-> [DcOnly(d) EXCEPT ![j] = 4096]] :
            d \in {0, 2560}, j \in {2, 9, 64}}

\* DQT payloads of one sub-table: the info byte and the 64 quantizers q, in
\* the order of the segment, of one byte or of two bytes each
DqtPayload(info, q) ==
    <<info>> \o (IF info \div 16 = 0 THEN q
                 ELSE [i \in 1..128 |-> IF i % 2 = 1 THEN q[(i + 1) \div 2] \div 256
                                        ELSE q[i \div 2] % 256])
Quantizers8 ==
    { [k \in 1..64 |-> 1], [k \in 1..64 |-> 255], [k \in 1..64 |-> 4 * k - 3],
      [k \in 1..64 |-> 256 - 3 * k] }
Quantizers16 ==
    { [k \in 1..64 |-> 65535], [k \in 1..64 |-> 65535 - 1000 * (k - 1)],
      [k \in 1..64 |-> 256 * k], [k \in 1..64 |-> k] }
DqtKernelInputs ==
    {[op |-> "parse_dqt", id |-> id, q |-> q, data |-> DqtPayload(id, q)] :
        id \in 0..3, q \in Quantizers8}
    \cup {[op |-> "parse_dqt", id |-> id, q |-> q, data |-> DqtPayload(16 + id, q)] :
            id \in 0..3, q \in Quantizers16}

\* entropy-coded blocks: n coefficients of one bit each, runs of sixteen
\* zeros, blocks that end at index 63 and runs that pass it
Ones(n) == [i \in 1..n |-> <<0, 1>>]
ZRL == <<15, 0>>
BlockCases ==
    { Flat, Wavy(5), Full,
      [dc |-> 0, ac |-> <<ZRL, ZRL, ZRL>> \o Ones(15), eob |-> FALSE],
      [dc |-> 0, ac |-> <<ZRL, ZRL, ZRL>> \o Ones(15), eob |-> TRUE],
      [dc |-> 0, ac |-> <<ZRL, ZRL, ZRL>> \o Ones(14), eob |-> TRUE],
      [dc |-> 0, ac |-> <<ZRL, ZRL, ZRL>> \o Ones(14) \o << <<14, 512>> >>,
       eob |-> TRUE],
      [dc |-> 0, ac |-> <<ZRL, ZRL>> \o Ones(15) \o <<ZRL>>, eob |-> TRUE],
      [dc |-> 0, ac |-> <<ZRL, ZRL>> \o Ones(16) \o <<ZRL>>, eob |-> TRUE],
      [dc |-> 0, ac |-> <<ZRL, ZRL, ZRL, ZRL>>, eob |-> TRUE],
      [dc |-> 0, ac |-> <<ZRL, ZRL, ZRL, <<0, 1>>, ZRL>>, eob |-> TRUE],
      [dc |-> 5, ac |-> <<ZRL, <<14, -512>>, ZRL, <<0, -1>>>>, eob |-> TRUE] }

\* the scan bytes given to one block decode: the blocks, followed by the
\* bytes of further blocks, and every string of up to MaxBlockLen of a few
\* bytes
MaxBlockLen == 3
BlockBytes == {0, 42, 85, 170, 208, 255}
BlockInputs ==
    {[op |-> "decode_block",
      data |-> Stuff(BytesOf(BlockBits(b))) \o <<0, 0, 0>>] : b \in BlockCases}
    \cup {[op |-> "decode_block", data |-> d] :
            d \in UNION {[1..n -> BlockBytes] : n \in 0..MaxBlockLen}}

KInit ==
    /\ k_in \in ClipInputs \cup ColourInputs \cup IdctInputs
                \cup DqtKernelInputs \cup BlockInputs
    /\ k_out = <<>>
    /\ TIdle /\ BIdle /\ DIdle /\ MIdle /\ HIdle /\ CIdle /\ RIdle
    /\ tick = 0

\* tables::byte_clip, of the build without and of the build with table-clip
Clip ==
    /\ k_in.op = "byte_clip" /\ k_out = <<>>
    /\ k_out' = <<[clamp |-> byte_clip(k_in.val),
                   table |-> byte_clip_table(k_in.val)]>>
    /\ UNCHANGED <<k_in, tvars, bvars, dvars, mvars, hvars, cvars, rvars, tick>>

\* color::ycbcr_to_rgb, called as mcu_to_rgb calls it for one pixel
Convert ==
    /\ k_in.op = "ycbcr_to_rgb" /\ k_out = <<>>
    /\ k_out' = <<ycbcr_to_rgb_in(k_in.build, k_in.y, k_in.cb - 128, k_in.cr - 128)>>
    /\ UNCHANGED <<k_in, tvars, bvars, dvars, mvars, hvars, cvars, rvars, tick>>

\* idct::block_idct
Idct ==
    /\ k_in.op = "block_idct" /\ k_out = <<>>
    /\ k_out' = <<block_idct(k_in.src)>>
    /\ UNCHANGED <<k_in, tvars, bvars, dvars, mvars, hvars, cvars, rvars, tick>>

\* JpegDecoder::parse_dqt on a new decoder, with a pool of the recommended size
LoadDqt ==
    /\ k_in.op = "parse_dqt" /\ k_out = <<>>
    /\ k_out' = <<parse_dqt(Entered(JpegDecoderNew,
                                     MemoryPoolNew(RECOMMENDED_POOL_SIZE), 0),
                             k_in.data, 0)>>
    /\ UNCHANGED <<k_in, tvars, bvars, dvars, mvars, hvars, cvars, rvars, tick>>

\* JpegDecoder::decode_and_dequantize_block for the one component of the
\* prepared grayscale decoder, at the start of the scan bytes
DecodeBlock ==
    /\ k_in.op = "decode_block" /\ k_out = <<>>
    /\ k_out' = <<decode_and_dequantize_block(PreparedOf(GrayImage), k_in.data,
                                               BitStreamNew, [i \in 0..2 |-> 0],
                                               0, 0)>>
    /\ UNCHANGED <<k_in, tvars, bvars, dvars, mvars, hvars, cvars, rvars>>
    /\ tick' = 1 - tick

KNext == Clip \/ Convert \/ Idct \/ LoadDqt \/ DecodeBlock

SpecKernels == KInit /\ [][KNext]_vars

\* the call of the kernel op has returned
Returned(op) == k_in.op = op /\ k_out # <<>>

\* C22: byte_clip(v) is 0 for v < 0, v for 0 <= v <= 255 and 255 for
\* v > 255, and the table-based variant of the table-clip build returns the
\* same value as the arithmetic clamp for every v in -512..=511.
C22_ClipAgree ==
    Returned("byte_clip") =>
        /\ k_out[1].clamp = (IF k_in.val < 0 THEN 0
                             ELSE IF k_in.val <= 255 THEN k_in.val ELSE 255)
        /\ k_out[1].table = k_out[1].clamp

\* the table that parse_dqt stored for the input
LoadedTable == k_out[1].st.dec.qtables[k_in.id]

\* C25: loading a DQT sub-table of 8-bit or of 16-bit quantizers writes each
\* of the 64 raster entries once: ZIGZAG is a permutation of 0..=63, the
\* quantizer q[k] at position k of the segment is stored at raster index
\* ZIGZAG[k], multiplied by the Arai factor at that raster index,
\* ARAI_SCALE_FACTOR[ZIGZAG[k]], and the product fits in a signed 32-bit
\* integer.
C25_DqtLoad ==
    Returned("parse_dqt") =>
        /\ k_out[1].result = "Ok"
        /\ DOMAIN LoadedTable = 1..64
        /\ {ZIGZAG[k + 1] : k \in 0..63} = 0..63
        /\ \A k \in 0..63 :
              /\ LoadedTable[ZIGZAG[k + 1] + 1]
                   = k_in.q[k + 1] * ARAI_SCALE_FACTOR[ZIGZAG[k + 1] + 1]
              /\ LoadedTable[ZIGZAG[k + 1] + 1] \in 0..2147483647

\* C25 as the claim has it: q[k] is multiplied by the factor at its zigzag
\* position k
C25_FactorAtPosition ==
    Returned("parse_dqt") =>
        \A k \in 0..63 :
            LoadedTable[ZIGZAG[k + 1] + 1]
              = k_in.q[k + 1] * ARAI_SCALE_FACTOR[k + 1]

\* a table of descending 16-bit quantizers is loaded: the third of the
\* segment lands at raster index 8 with the factor 11363 of that index
C25_Witness ==
    /\ Returned("parse_dqt")
    /\ k_in.id = 1 /\ k_in.q[3] = 63535
    /\ LoadedTable[9] = 63535 * 11363

\* C26: ycbcr_to_rgb computes R = clip(Y + 1435*(Cr-128)/1024),
\* G = clip(Y - (352*(Cb-128) + 731*(Cr-128))/1024) and
\* B = clip(Y + 1814*(Cb-128)/1024), the factors being 1.402, 0.344, 0.714
\* and 1.772 times 1024 truncated, the quotients truncated toward zero and
\* clip the byte_clip of the build; with Cb = Cr = 128 the three channels
\* are clip(Y).
C26_Truncated ==
    Returned("ycbcr_to_rgb") =>
        LET cb == k_in.cb - 128
            cr == k_in.cr - 128
        IN  /\ k_out[1] =
                 << byte_clip_in(k_in.build, k_in.y + QuotT(1435 * cr, 1024)),
                    byte_clip_in(k_in.build,
                                 k_in.y - QuotT(352 * cb + 731 * cr, 1024)),
                    byte_clip_in(k_in.build, k_in.y + QuotT(1814 * cb, 1024)) >>
            /\ (cb = 0 /\ cr = 0) =>
                 \A c \in 1..3 : k_out[1][c] = byte_clip_in(k_in.build, k_in.y)

\* C26 as the claim has it: the factors rounded to nearest, 1436 and 1815
C26_Rounded ==
    Returned("ycbcr_to_rgb") =>
        LET cb == k_in.cb - 128
            cr == k_in.cr - 128
        IN  k_out[1] =
              << byte_clip_in(k_in.build, k_in.y + QuotT(1436 * cr, 1024)),
                 byte_clip_in(k_in.build,
                              k_in.y - QuotT(352 * cb + 731 * cr, 1024)),
                 byte_clip_in(k_in.build, k_in.y + QuotT(1815 * cb, 1024)) >>

\* a pixel with Cr = 255 is converted: R is Y + 177, not Y + 178
C26_Witness ==
    /\ Returned("ycbcr_to_rgb")
    /\ k_in.y = 64 /\ k_in.cb = 128 /\ k_in.cr = 255
    /\ k_out[1][1] = 241

\* the block given to block_idct has no non-zero coefficient but the DC term
DcAlone == \A j \in 2..64 : k_in.src[j] = 0

\* C27: block_idct on a block whose only non-zero coefficient is the DC
\* term d writes ((d + 128*256) >> 8) as i16 at all 64 positions, which is
\* (d + 128*256) >> 8 whenever that lies in -32768..=32767; the all-zero
\* block yields 128.
C27_DcOnly ==
    (Returned("block_idct") /\ DcAlone) =>
        \A j \in 1..64 :
            /\ k_out[1][j] = ToI16(Shr(k_in.src[1] + 128 * 256, 8))
            /\ Shr(k_in.src[1] + 128 * 256, 8) \in (-32768)..32767
                 => k_out[1][j] = Shr(k_in.src[1] + 128 * 256, 8)
            /\ k_in.src[1] = 0 => k_out[1][j] = 128

\* C27 as the claim has it: the value written is (d + 128*256) >> 8
C27_Unwrapped ==
    (Returned("block_idct") /\ DcAlone) =>
        \A j \in 1..64 : k_out[1][j] = Shr(k_in.src[1] + 128 * 256, 8)

\* a block with DC term 997 alone has been transformed
C27_Witness ==
    /\ Returned("block_idct") /\ DcAlone
    /\ k_in.src[1] = 997
    /\ k_out[1][64] = 131

\* the call was the first on a new decoder, with a new pool of the
\* recommended size, and its input stored no table slot twice
RecommendedPool ==
    /\ h_n = 1
    /\ h_last.pool = MemoryPoolNew(RECOMMENDED_POOL_SIZE)
    /\ \A i, j \in 1..Len(h_last.loads) :
          h_last.loads[i] = h_last.loads[j] => i = j

\* C23: with a pool of RECOMMENDED_POOL_SIZE bytes, prepare never returns
\* InsufficientMemory in the tiers 0 and 1 for a header that defines each
\* Huffman slot and each quantization slot at most once; in the lookup-table
\* tier the header of four tables of 256 symbols and four quantization
\* tables does get InsufficientMemory.
C23_PoolSuffices ==
    (Prepared /\ RecommendedPool) =>
        /\ h_tier \in {0, 1} => h_last.result # "InsufficientMemory"
        /\ (h_tier = 2 /\ h_last.data = FullHeader(4, FullBits, FullBits))
             => h_last.result = "InsufficientMemory"

\* C23 as the claim has it: in every tier
C23_EveryTier ==
    (Prepared /\ RecommendedPool) => h_last.result # "InsufficientMemory"

\* the header of four tables of 256 symbols and four quantization tables has
\* been taken in tier 1: it used 4,320 bytes of the pool
C23_Witness ==
    /\ Prepared /\ RecommendedPool
    /\ h_tier = 1
    /\ h_last.data = FullHeader(4, FullBits, FullBits)
    /\ h_last.result = "Ok"
    /\ Len(h_last.loads) = 8
    /\ h_pool.offset = 4320

\* the iterations of the AC loop of the block decode
Iterations == k_out[1].steps

\* the history of the AC loop of the block decode: the iterations that
\* decoded a symbol, and the index that the i-th symbol moved z to
Decoded(e) == e.ok
Steps == SelectSeq(Iterations, Decoded)
IndexAt(i) == Steps[i].z + Steps[i].symbol \div 16

\* C24: in every block decode the loop decodes a symbol only with the
\* zigzag index z in 1..=63 and leaves z in 1..=64; a coefficient is stored
\* only at ZIGZAG[z] with z <= 63; a run that moves z to 64 or beyond yields
\* FormatError; the loop ends only on the symbol 0x00, when z reaches 64,
\* or on an error.
C24_ZigzagBounds ==
    Returned("decode_block") =>
        /\ \A i \in 1..Len(Steps) :
              /\ Steps[i].z \in 1..63
              /\ Steps[i].z = (IF i = 1 THEN 1 ELSE IndexAt(i - 1) + 1)
              /\ Steps[i].stored # None =>
                   /\ IndexAt(i) <= 63
                   /\ Steps[i].symbol % 16 > 0
                   /\ Steps[i].stored = ZIGZAG[IndexAt(i) + 1]
              /\ (Steps[i].symbol # 0 /\ IndexAt(i) >= 64) =>
                   /\ i = Len(Steps)
                   /\ ~k_out[1].ok /\ k_out[1].err = "FormatError"
              /\ i < Len(Steps) => (Steps[i].symbol # 0 /\ IndexAt(i) + 1 < 64)
        /\ k_out[1].ok =>
              /\ Len(Steps) >= 1
              /\ \/ Steps[Len(Steps)].symbol = 0
                 \/ IndexAt(Len(Steps)) + 1 = 64

\* a block of three runs of sixteen zeros and a coefficient at index 63 has
\* been decoded: the loop ended with z = 64 and without EOB
C24_Witness ==
    /\ Returned("decode_block")
    /\ k_out[1].ok
    /\ Len(Steps) = 4
    /\ Steps[4].z = 49 /\ Steps[4].symbol = 234 /\ Steps[4].stored = 63

\* a run of sixteen zeros from index 49 has been refused
C24_RunRefused ==
    /\ Returned("decode_block")
    /\ ~k_out[1].ok /\ k_out[1].err = "FormatError"
    /\ Len(Steps) = 4
    /\ Steps[4].z = 49 /\ Steps[4].symbol = 240

\* the pixels of a rectangle
PixelsOf(r) == (r.left .. r.right) \X (r.top .. r.bottom)

\* the rectangles given to the sink in the call c are pairwise disjoint
RectsApart(c) ==
    \A s, t \in 1..Len(c.log) :
        s # t => PixelsOf(c.log[s].rect) \cap PixelsOf(c.log[t].rect) = {}

\* each lies in the image as width() and height() give it during the call
RectsInside(c) ==
    \A t \in 1..Len(c.log) :
        LET r == c.log[t].rect IN
        /\ r.left <= r.right /\ r.right <= c.log[t].width - 1
        /\ r.top <= r.bottom /\ r.bottom <= c.log[t].height - 1

\* together they are the image
RectsCover(c) ==
    UNION {PixelsOf(c.log[t].rect) : t \in 1..Len(c.log)}
      = (0 .. c.raw_after[1] - 1) \X (0 .. c.raw_after[2] - 1)

\* C28: the rectangles given to the sink in one decompress call are pairwise
\* disjoint and lie within [0, width()-1] x [0, height()-1]; in a call at
\* scale 0 on a valid image, with buffers of the required sizes and a sink
\* that always continues, their union is the image area [0, W-1] x [0, H-1].
C28_Tiling ==
    \A i \in 1..Len(calls) :
        /\ RectsApart(calls[i])
        /\ RectsInside(calls[i])
        /\ (/\ img.damage = "none"
            /\ calls[i].args \in GoodArgs
            /\ calls[i].args.scale = 0)
           => RectsCover(calls[i])

----------------------------------------------------------------------------
(* SpecCounter: the restart counter in the MCU loop of decompress, lines    *)
(* 453-487.  One step is one row of MCUs, the inner loop over mcu_x; what  *)
(* decode_mcu and the sink do is left open: a row either goes through or   *)
(* ends the call with their error.  c_loop holds mcu_y, restart_counter    *)
(* and the result of the call ("" while the loop runs), and as history the *)
(* highest value the counter has had (peak) and whether its increment has  *)
(* overflowed.                                                             *)

U16_MAX == 65535

\* the restart check, lines 458-463, for the counter
counter_restart(dec, st) ==
    IF dec.restart_interval > 0 /\ st.restart_counter >= dec.restart_interval
    THEN [st EXCEPT !.restart_counter = 0]
    ELSE st

\* restart_counter += 1 on the u16, line 485: beyond 65535 the debug build
\* panics and the release build wraps
counter_add(build, st) ==
    IF st.restart_counter = U16_MAX
    THEN IF build = "debug"
         THEN [st EXCEPT !.overflowed = TRUE, !.result = "panic"]
         ELSE [st EXCEPT !.overflowed = TRUE, !.restart_counter = 0]
    ELSE [st EXCEPT !.restart_counter = @ + 1,
                    !.peak = Max({@, st.restart_counter + 1})]

\* the inner loop, for mcu_x in (0..self.width).step_by(mcu_pixel_width),
\* from mcu_x on
RECURSIVE counter_row(_, _, _, _)
counter_row(build, dec, mcu_x, st) ==
    IF mcu_x >= dec.width \/ st.result # "" THEN st
    ELSE counter_row(build, dec, mcu_x + mcu_width_of(dec.sampling) * 8,
                     counter_add(build, counter_restart(dec, st)))

\* the images: a small one, and one of more than 65,536 MCUs
MaxWidth == 520
MaxHeight == 8080
CounterSizes == { <<16, 16>>, <<MaxWidth, MaxHeight>> }
CounterDecoders ==
    {[width |-> wh[1], height |-> wh[2], sampling |-> s, restart_interval |-> ri] :
        wh \in CounterSizes, s \in {"Yuv444", "Yuv420"},
        ri \in {0, 1, 300, U16_MAX}}

CInit ==
    /\ c_build \in {"debug", "release"}
    /\ c_dec \in CounterDecoders
    /\ c_loop = [mcu_y |-> 0, restart_counter |-> 0, result |-> "",
                 peak |-> 0, overflowed |-> FALSE]
    /\ TIdle /\ BIdle /\ DIdle /\ MIdle /\ HIdle /\ KIdle /\ RIdle
    /\ tick = 0

\* a row of MCUs is decoded and given to the sink
McuRow ==
    /\ c_loop.result = "" /\ c_loop.mcu_y < c_dec.height
    /\ c_loop' = [counter_row(c_build, c_dec, 0, c_loop) EXCEPT
                    !.mcu_y = @ + mcu_height_of(c_dec.sampling) * 8]
    /\ UNCHANGED <<c_build, c_dec, tvars, bvars, dvars, mvars, hvars, kvars, rvars, tick>>

\* decode_mcu or the sink ends the call in this row
RowFails ==
    /\ c_loop.result = "" /\ c_loop.mcu_y < c_dec.height
    /\ c_loop' = [c_loop EXCEPT !.result = "Err"]
    /\ UNCHANGED <<c_build, c_dec, tvars, bvars, dvars, mvars, hvars, kvars, rvars, tick>>

\* the loop is through: Ok(())
LoopEnds ==
    /\ c_loop.result = "" /\ c_loop.mcu_y >= c_dec.height
    /\ c_loop' = [c_loop EXCEPT !.result = "Ok"]
    /\ UNCHANGED <<c_build, c_dec, tvars, bvars, dvars, mvars, hvars, kvars, rvars, tick>>

CNext == McuRow \/ RowFails \/ LoopEnds

SpecCounter == CInit /\ [][CNext]_vars

\* C30: during decompress the 16-bit restart_counter never exceeds
\* restart_interval when restart_interval > 0, and its increment per MCU
\* never overflows 16 bits, also when restart_interval = 0.
C30_CounterBounded ==
    /\ c_dec.restart_interval > 0 => c_loop.peak <= c_dec.restart_interval
    /\ ~c_loop.overflowed

----------------------------------------------------------------------------
(* SpecRuns: the loops of prepare and of decompress run to their end.  A   *)
(* behaviour is one of three: a call of prepare taken segment by segment,  *)
(* the calls of decompress of Spec taken MCU by MCU, or one block decode.  *)
(* Neither call has a suspension point, so a loop that can take its next   *)
(* step takes it: the steps are weakly fair.  The calls of decompress      *)
(* themselves are up to the caller.                                        *)

\* the cursor of prepare past a segment at pos whose length field moves it
\* by less than its four header bytes
segment_end_short(pos, seg_len) == pos + seg_len

\* prepare: pos = seg_start + seg_len, with seg_start = pos + 4
segment_end(pos, seg_len) == pos + 4 + seg_len

\* prepare: what the match on the marker m of the segment at pos gives, Ok
\* for a segment that is skipped
segment_parsed(st, tier, pos, m, segment) ==
    CASE m = SOF0 -> sof_noted(parse_sof(st, segment, pos + 4), segment)
      [] m = DHT -> parse_dht(st, tier, segment, pos + 4)
      [] m = DQT -> parse_dqt(st, segment, pos + 4)
      [] m = DRI -> parse_dri(st, segment, pos + 4)
      [] m = SOS -> prepare_sos(parse_sos(st, segment, pos + 4), pos)
      [] m = EOI -> Parsed(st, "FormatError")
      [] m >= 192 /\ m <= 207 /\ m # SOF0 /\ m # DHT ->
           Parsed(st, "UnsupportedStandard")
      [] OTHER -> Parsed(st, "Ok")

\* what one iteration of the loop of prepare gives: the call returns the
\* result, or the loop goes on at pos
Iterated(returns, r, pos) ==
    [returns |-> returns, result |-> r.result, st |-> r.st, pos |-> pos]

\* prepare: the iteration from the parser's result r for the marker m on
prepare_parsed(r, m, pos, next) ==
    IF r.result # "Ok" \/ m = SOS THEN Iterated(TRUE, r, pos)
    ELSE Iterated(FALSE, r, next)

\* prepare: the iteration from the marker and the length of the segment on
prepare_header(st, tier, data, pos, marker, length) ==
    IF length < 2 \/ marker \div 256 # 255
    THEN Iterated(TRUE, Parsed(st, "FormatError"), pos)
    ELSE IF pos + 4 + (length - 2) > Len(data)
    THEN Iterated(TRUE, Parsed(st, "Input"), pos)
    ELSE prepare_parsed(segment_parsed(st, tier, pos, marker % 256,
                                       SubSeq(data, pos + 5,
                                              pos + 4 + (length - 2))),
                        marker % 256, pos, segment_end(pos, length - 2))

\* prepare: one iteration of the loop over the segments, at offset pos
prepare_iteration(st, tier, data, pos) ==
    IF pos + 4 > Len(data)
    THEN Iterated(TRUE, Parsed([st EXCEPT !.at = pos], "Input"), pos)
    ELSE prepare_header(read_to([st EXCEPT !.at = pos], pos + 4), tier, data,
                        pos, from_be_bytes(data[pos + 1], data[pos + 2]),
                        from_be_bytes(data[pos + 3], data[pos + 4]))

\* prepare is called on a new decoder, with a pool of the recommended size
RInit ==
    /\ r_data \in PInputs
    /\ r_tier \in 0..2
    /\ r_pc = "called"
    /\ r_st = Entered(JpegDecoderNew, MemoryPoolNew(RECOMMENDED_POOL_SIZE), 0)
    /\ r_pos = 0
    /\ r_result = ""
    /\ TIdle /\ BIdle /\ DIdle /\ MIdle /\ HIdle /\ KIdle /\ CIdle
    /\ tick = 0

\* prepare up to its loop: the length check and the SOI check
PrepareCall ==
    /\ r_pc = "called"
    /\ IF Len(r_data) < 2
       THEN r_pc' = "returned" /\ r_result' = "Input" /\ UNCHANGED <<r_st, r_pos>>
       ELSE IF from_be_bytes(r_data[1], r_data[2]) # SOI
       THEN /\ r_pc' = "returned" /\ r_result' = "FormatError"
            /\ r_st' = Entered(r_st.dec, r_st.pool, 2)
            /\ r_pos' = 2
       ELSE /\ r_pc' = "loop" /\ r_result' = ""
            /\ r_st' = Entered(r_st.dec, r_st.pool, 2)
            /\ r_pos' = 2
    /\ UNCHANGED <<r_data, r_tier, tvars, bvars, dvars, mvars, hvars, kvars,
                   cvars>>
    /\ tick' = 1 - tick

\* one iteration of the loop of prepare
PrepareSegment ==
    /\ r_pc = "loop"
    /\ \E it \in {prepare_iteration(r_st, r_tier, r_data, r_pos)} :
         /\ r_st' = it.st
         /\ r_pos' = it.pos
         /\ r_pc' = IF it.returns THEN "returned" ELSE "loop"
         /\ r_result' = IF it.returns THEN it.result ELSE ""
    /\ UNCHANGED <<r_data, r_tier, tvars, bvars, dvars, mvars, hvars, kvars,
                   cvars>>
    /\ tick' = 1 - tick

\* one block decode, in a behaviour of its own
BlockRun ==
    /\ pc = "off" /\ r_pc = "off"
    /\ DecodeBlock

\* a loop is at work: prepare has been called and has not returned, the MCU
\* loop of decompress is under way, or the block decode has not returned
Running ==
    \/ r_pc \in {"called", "loop"}
    \/ pc = "loop"
    \/ pc = "off" /\ r_pc = "off" /\ k_out = <<>>

\* the loop at work takes a step
LoopStep == Running /\ tick' = 1 - tick

RunsInit ==
    \/ RInit
    \/ DInit
    \/ KInit /\ k_in.op = "decode_block"

RunsNext ==
    \/ PrepareCall
    \/ PrepareSegment
    \/ Decompress
    \/ McuStep
    \/ Return
    \/ BlockRun

SpecRuns ==
    /\ RunsInit
    /\ [][RunsNext]_vars
    /\ WF_tick(LoopStep)

\* the call of prepare taken segment by segment returns what prepare returns
RunsAsPrepare ==
    r_pc = "returned" =>
        Parsed(r_st, r_result)
          = prepare(JpegDecoderNew, MemoryPoolNew(RECOMMENDED_POOL_SIZE),
                    r_tier, r_data)

\* the block decode has returned
BlockReturned == pc = "off" /\ r_pc = "off" /\ Returned("decode_block")

\* every iteration of the AC loop of the returned block decode: there are
\* at most 63, each decode call went through at most 16 bit lengths, and
\* from a call that found a marker pending on no more input was consumed
BlockBounded ==
    BlockReturned =>
        /\ Len(Iterations) <= 63
        /\ \A i \in 1..Len(Iterations) :
              /\ Iterations[i].tried <= 16
              /\ Iterations[i].pads <= 2
              /\ Iterations[i].marker # None =>
                   k_out[1].bs.pos = Iterations[i].pos

\* C29: prepare terminates on every input, its cursor advancing by at least
\* 4 bytes per marker; decompress terminates on every input with a sink that
\* returns; each block decode performs at most 63 AC iterations and each
\* Huffman decode at most 16 length steps, also while a marker is pending
\* and the bit stream supplies 0xFF padding without consuming input.
C29_Terminates ==
    /\ (r_pc = "called") ~> (r_pc = "returned")
    /\ [][(r_pc = "loop" /\ r_pc' = "loop") => r_pos' >= r_pos + 4]_vars
    /\ (pc = "loop") ~> (pc = "idle")
    /\ []BlockBounded

\* a block decode has returned in which, with a marker pending, a decode
\* call of the AC loop was padded with 0xFF and a later one went through all
\* 16 lengths
C29_Witness ==
    /\ BlockReturned
    /\ \E i, j \in 1..Len(Iterations) :
          /\ i < j
          /\ Iterations[i].marker # None
          /\ Iterations[i].pads > 0
          /\ Iterations[j].marker # None
          /\ Iterations[j].tried = 16

=============================================================================
